---- MODULE Spec2Model ----
(***************************************************************************)
(* The event-routing and group-membership engine of the websocket relay:   *)
(* the connection registry (ConnectionManager), the client handlers        *)
(* (SocketHandlers), the room broadcaster (BroadcastService) and the bus   *)
(* listener (RedisService).                                                *)
(*                                                                         *)
(* Strings are TLA+ strings; prefixes, the channel pattern and the         *)
(* number-to-string conversion are computed character by character.        *)
(* Timestamps (createTimestamp) are left out of every payload.             *)
(*                                                                         *)
(* start() and shutdown() are taken one await at a time. The pmessages of  *)
(* one publication reach the subscriber one after the other on its one     *)
(* connection, in either order of the patterns: no other publication and   *)
(* no reply to pSubscribe or quit comes between them, but the events of    *)
(* the clients do. quit() is taken to succeed, and shutdown() to be asked  *)
(* of a server that listens or was never started. The process ends when    *)
(* the last connection of a closed server has ended.                       *)
(*                                                                         *)
(* Every listener is one step. In server.js, where socket.onAny is         *)
(* registered, the steps of an event are those of the transport: the       *)
(* packet is decoded, the onAny listener runs on the next tick and the     *)
(* listener of the event's name on the tick after, if the socket is still  *)
(* connected. A connection ends by the close of its transport, handled in  *)
(* the read that holds it, or by a DISCONNECT packet, handled on its own   *)
(* tick like an event. For the claim of run-to-completion the join-group   *)
(* listener and the bus listener are also taken statement by statement     *)
(* (NextSteps).                                                            *)
(***************************************************************************)
EXTENDS Integers, Sequences, FiniteSets, TLC

\* Number of client sockets that may be connected at the same time.
NumSockets == 2

VARIABLES
    rooms,              \* io.sockets.adapter.rooms, a Map: the members of every
                        \* room, and the room names in the order of insertion
    activeConnections,  \* ConnectionManager.activeConnections: socket id -> record
    groupPermalinks,    \* ConnectionManager.groupPermalinks: group key -> label
    subscribed,         \* patterns whose listener redisSubscriber calls
    stage,              \* how far start() and shutdown() have come
    inflight,           \* the bus publication being delivered
    last,               \* the handler that ran last
    out,                \* the emits of the handler that ran last
    crashed,            \* a fault escaped a handler
    observed,           \* the clients' streams are being recorded
    inbox,              \* socket id -> the emits written to the socket, in order
    published,          \* the publications handled, in order, each with the
                        \* members its group room had then
    ticks,              \* server.js: the events whose listener is left for
                        \* the next tick, in order
    runs                \* the handlers that were called and have not ended,
                        \* each with the statement it comes to next

vars == <<rooms, activeConnections, groupPermalinks, subscribed, stage,
          inflight, last, out, crashed, observed, inbox, published, ticks,
          runs>>

----------------------------------------------------------------------------
(* JavaScript values *)

JsUndef == [t |-> "undef", n |-> 0, s |-> ""]
JsNull == [t |-> "null", n |-> 0, s |-> ""]
JsNum(k) == [t |-> "num", n |-> k, s |-> ""]
JsStr(x) == [t |-> "str", n |-> 0, s |-> x]
JsBool(b) == [t |-> "bool", n |-> IF b THEN 1 ELSE 0, s |-> ""]
JsNaN == [t |-> "nan", n |-> 0, s |-> ""]
\* an array, named by the string its elements join to
JsArr(x) == [t |-> "arr", n |-> 0, s |-> x]
\* an object literal, named by its JSON text
JsObj(x) == [t |-> "obj", n |-> 0, s |-> x]

\* !v is false
Truthy(v) ==
    CASE v.t = "undef" -> FALSE
      [] v.t = "null" -> FALSE
      [] v.t = "num" -> v.n # 0
      [] v.t = "str" -> v.s # ""
      [] v.t = "bool" -> v.n = 1
      [] v.t = "nan" -> FALSE
      [] OTHER -> TRUE

DigitChars == <<"0", "1", "2", "3", "4", "5", "6", "7", "8", "9">>

RECURSIVE NumToStr(_)
NumToStr(k) ==
    IF k < 10 THEN DigitChars[k + 1]
    ELSE NumToStr(k \div 10) \o DigitChars[(k % 10) + 1]

\* String(v), `${v}`
JsString(v) ==
    CASE v.t = "undef" -> "undefined"
      [] v.t = "null" -> "null"
      [] v.t = "num" -> NumToStr(v.n)
      [] v.t = "str" -> v.s
      [] v.t = "bool" -> (IF v.n = 1 THEN "true" ELSE "false")
      [] v.t = "nan" -> "NaN"
      [] v.t = "arr" -> v.s
      [] OTHER -> "[object Object]"

\* s.startsWith(p)
StartsWith(s, p) == Len(s) >= Len(p) /\ SubSeq(s, 1, Len(p)) = p

IsDigitAt(s, i) ==
    i >= 1 /\ i <= Len(s) /\ \E d \in 1..10 : SubSeq(s, i, i) = DigitChars[d]

Max(S) == CHOOSE x \in S : \A y \in S : x >= y

\* the number of leading characters of s that are among chars
LeadingCount(s, chars) ==
    Max({0} \cup {j \in 1..Len(s) : \A k \in 1..j : SubSeq(s, k, k) \in chars})

HexLetters == <<"a", "b", "c", "d", "e", "f", "A", "B", "C", "D", "E", "F">>

\* the value of a character as a digit, 36 when it is none
CharValue(c) ==
    IF \E d \in 0..9 : c = DigitChars[d + 1]
    THEN CHOOSE d \in 0..9 : c = DigitChars[d + 1]
    ELSE IF \E d \in 1..12 : c = HexLetters[d]
    THEN 10 + (((CHOOSE d \in 1..12 : c = HexLetters[d]) - 1) % 6)
    ELSE 36

\* the value in radix R of the first n characters of s, all digits of R
RECURSIVE DigitsValue(_, _, _)
DigitsValue(s, n, R) ==
    IF n = 0 THEN 0
    ELSE DigitsValue(s, n - 1, R) * R + CharValue(SubSeq(s, n, n))

\* the white space parseInt skips: space, tab, line feed, form feed,
\* carriage return, and, written as the characters themselves, the vertical
\* tab (U+000B), the no-break space (U+00A0), the ogham space (U+1680) and
\* the byte order mark (U+FEFF). The other spaces of JavaScript (U+2000 to
\* U+200A, U+2028, U+2029, U+202F, U+205F, U+3000) cannot stand in a string
\* of this module, so that no identifier here holds one.
StrWhiteSpaceChar ==
    {" ", "\t", "\n", "\f", "\r", "", " ", " ", "﻿"}

\* parseInt(s), no radix given: white space is skipped, a sign is read, the
\* prefix 0x or 0X makes the radix 16, and the digits that follow are the
\* number; NaN when there is none. (Numbers stay below 2^31.)
parseInt(s) ==
    LET blanks == LeadingCount(s, StrWhiteSpaceChar)
        trimmed == SubSeq(s, blanks + 1, Len(s))
        signed == Len(trimmed) >= 1 /\ SubSeq(trimmed, 1, 1) \in {"+", "-"}
        negative == signed /\ SubSeq(trimmed, 1, 1) = "-"
        unsigned == IF signed THEN SubSeq(trimmed, 2, Len(trimmed)) ELSE trimmed
        hex == Len(unsigned) >= 2 /\ SubSeq(unsigned, 1, 2) \in {"0x", "0X"}
        R == IF hex THEN 16 ELSE 10
        digits == IF hex THEN SubSeq(unsigned, 3, Len(unsigned)) ELSE unsigned
        ofRadix == {c \in {DigitChars[d] : d \in 1..10}
                            \cup {HexLetters[d] : d \in 1..12} :
                        CharValue(c) < R}
        n == LeadingCount(digits, ofRadix)
    IN  IF n = 0 THEN JsNaN
        ELSE IF negative THEN JsNum(0 - DigitsValue(digits, n, R))
        ELSE JsNum(DigitsValue(digits, n, R))

----------------------------------------------------------------------------
(* utils/helpers *)

GroupPattern == "antrian.group."

\* channel.match(/antrian\.group\.(\d+)/): the leftmost place where the
\* literal is followed by a digit, and the longest run of digits there.
extractGroupIdFromChannel(channel) ==
    LET P == Len(GroupPattern)
        hits == {i \in 1..Len(channel) :
                    /\ i + P <= Len(channel)
                    /\ SubSeq(channel, i, i + P - 1) = GroupPattern
                    /\ IsDigitAt(channel, i + P)}
    IN  IF hits = {} THEN JsNull
        ELSE LET from == (CHOOSE x \in hits : \A y \in hits : x <= y) + P
                 upto == Max({j \in from..Len(channel) :
                                \A k \in from..j : IsDigitAt(channel, k)})
             IN  JsStr(SubSeq(channel, from, upto))

\* a Map of rooms: the members of every room, and the names of the group
\* rooms in the order the Map holds them, which is the order they were
\* inserted in. (The only reader of the key order, getActiveDisplays, drops
\* every other room before it looks at the order.)
RoomMap(members, keys) == [members |-> members, keys |-> keys]

NoRooms == RoomMap([x \in {} |-> {}], <<>>)

\* rooms.keys(), as a set
RoomNames(rms) == DOMAIN rms.members

\* rooms.get(roomName), the empty set when there is no such room
RoomMembers(rms, roomName) ==
    IF roomName \in RoomNames(rms) THEN rms.members[roomName] ELSE {}

\* io.sockets.adapter.rooms.get(roomName)?.size || 0
getRoomClientCount(rms, roomName) == Cardinality(RoomMembers(rms, roomName))

----------------------------------------------------------------------------
(* The transport's room adapter (socket.io in-memory adapter) as the       *)
(* handlers use it: a room is materialized while it has a member.          *)

Sockets == {"s" \o NumToStr(i) : i \in 1..NumSockets}

\* socket.rooms
SocketRooms(rms, sid) == {r \in RoomNames(rms) : sid \in rms.members[r]}

\* sockets of the namespace: each is in the room of its own id
Connected(rms) == {r \in RoomNames(rms) : r \in rms.members[r]}

\* socket.join(roomName): a room that does not exist is inserted last
SocketJoin(rms, sid, roomName) ==
    RoomMap([r \in RoomNames(rms) \cup {roomName} |->
                IF r = roomName THEN RoomMembers(rms, r) \cup {sid}
                ELSE rms.members[r]],
            IF roomName \in RoomNames(rms) \/ ~StartsWith(roomName, "group_")
            THEN rms.keys
            ELSE Append(rms.keys, roomName))

\* mutant: the socket stays in the room
SocketLeave_Stays(rms, sid, roomName) == rms

\* socket.leave(roomName): the room is deleted when its last member leaves
SocketLeave(rms, sid, roomName) ==
    LET keep == {r \in RoomNames(rms) :
                    r # roomName \/ rms.members[r] \ {sid} # {}}
    IN  RoomMap([r \in keep |-> IF r = roomName THEN rms.members[r] \ {sid}
                                ELSE rms.members[r]],
                SelectSeq(rms.keys, LAMBDA r : r \in keep))

\* leaving every room of a set, one after the other
RECURSIVE SocketLeaveEach(_, _, _)
SocketLeaveEach(rms, sid, names) ==
    IF names = {} THEN rms
    ELSE LET r == CHOOSE x \in names : TRUE
         IN  SocketLeaveEach(SocketLeave(rms, sid, r), sid, names \ {r})

\* an emit: what was sent (the event name is a JavaScript value), and the
\* sockets it was written to
Emit(kind, target, event, data, recipients) ==
    [kind |-> kind, target |-> target, event |-> event, data |-> data,
     recipients |-> recipients]

\* socket.emit(event, data)
SocketEmit(sid, event, data) == Emit("socket", sid, JsStr(event), data, {sid})

\* mutant: the room emit is written to every connected socket
RoomEmit_AllConnected(rms, roomName, event, data) ==
    Emit("room", roomName, event, data, Connected(rms))

\* io.to(roomName).emit(event, data)
RoomEmit(rms, roomName, event, data) ==
    Emit("room", roomName, event, data, RoomMembers(rms, roomName))

\* io.emit(event, data)
AllEmit(rms, event, data) == Emit("all", "", event, data, Connected(rms))

----------------------------------------------------------------------------
(* services/connectionManager *)

\* a Map without entries; the one-file server's permalinks, as it keeps none
EmptyMap == [x \in {} |-> 0]

\* a Map with one entry set
MapSet(m, k, v) == [x \in DOMAIN m \cup {k} |-> IF x = k THEN v ELSE m[x]]

\* a Map with one entry deleted
MapDelete(m, k) == [x \in DOMAIN m \ {k} |-> m[x]]

\* mutant: the connection is not recorded
addConnection_Unrecorded(conns, socketId, ipAddress) == conns

addConnection(conns, socketId, ipAddress) ==
    MapSet(conns, socketId, [id |-> socketId, ipAddress |-> ipAddress])

removeConnection(conns, socketId) == MapDelete(conns, socketId)

\* mutant: the key is the identifier as sent, so that 5 and "5" are two keys
setGroupPermalink_TypedKey(perm, groupId, groupName) ==
    MapSet(perm,
           IF groupId.t = "str" THEN "\"" \o JsString(groupId) \o "\""
           ELSE JsString(groupId),
           groupName)

\* mutant: a label is stored only for a group that has none
setGroupPermalink_FirstWins(perm, groupId, groupName) ==
    IF JsString(groupId) \in DOMAIN perm THEN perm
    ELSE [x \in DOMAIN perm \cup {JsString(groupId)} |->
            IF x = JsString(groupId) THEN groupName ELSE perm[x]]

setGroupPermalink(perm, groupId, groupName) ==
    MapSet(perm, JsString(groupId), groupName)

\* mutant: the entry is kept
removeGroupPermalink_Keeps(perm, groupId) == perm

removeGroupPermalink(perm, groupId) == MapDelete(perm, JsString(groupId))

GroupPrefix == "group_"

\* allRooms.filter(room => room.startsWith('group_'))
GroupRooms(rms) == {r \in RoomNames(rms) : StartsWith(r, GroupPrefix)}

\* roomName.replace('group_', '') of a name that starts with 'group_'
GroupIdOfRoom(roomName) ==
    SubSeq(roomName, Len(GroupPrefix) + 1, Len(roomName))

\* mutant: the sweep deletes the entry of every group
cleanupEmptyGroups_DropsAll(rms, perm) == [k \in {} |-> perm[k]]

\* deletes the permalink of every materialized group room that has no client
cleanupEmptyGroups(rms, perm) ==
    LET empty == {GroupIdOfRoom(r) : r \in
                    {x \in GroupRooms(rms) : getRoomClientCount(rms, x) = 0}}
    IN  [k \in DOMAIN perm \ empty |-> perm[k]]

\* (a, b) => a.groupNumber - b.groupNumber; sort takes a NaN result as 0
CompareDisplays(a, b) ==
    IF a.groupNumber.t = "num" /\ b.groupNumber.t = "num"
    THEN a.groupNumber.n - b.groupNumber.n
    ELSE 0

\* the last place of the run that starts seq, places 1..i being in it
RECURSIVE RunEnd(_, _, _)
RunEnd(seq, i, descending) ==
    IF i = Len(seq) THEN i
    ELSE LET order == CompareDisplays(seq[i + 1], seq[i])
         IN  IF (descending /\ order >= 0) \/ (~descending /\ order < 0) THEN i
             ELSE RunEnd(seq, i + 1, descending)

\* the run that starts seq is counted, and reversed when it descends
CountAndMakeRun(seq) ==
    IF Len(seq) < 2 THEN [run |-> Len(seq), seq |-> seq]
    ELSE LET descending == CompareDisplays(seq[2], seq[1]) < 0
             n == RunEnd(seq, 2, descending)
         IN  [run |-> n,
              seq |-> IF descending
                      THEN [i \in 1..Len(seq) |->
                                IF i <= n THEN seq[n + 1 - i] ELSE seq[i]]
                      ELSE seq]

\* the number of elements among the first `right` of seq that pivot is put
\* behind, found by halving from the first `left`
RECURSIVE InsertionPoint(_, _, _, _)
InsertionPoint(seq, pivot, left, right) ==
    IF left >= right THEN left
    ELSE LET mid == left + ((right - left) \div 2)
         IN  IF CompareDisplays(pivot, seq[mid + 1]) < 0
             THEN InsertionPoint(seq, pivot, left, mid)
             ELSE InsertionPoint(seq, pivot, mid + 1, right)

\* the elements behind the first `start`, which are sorted, are inserted
\* among them one after the other
RECURSIVE BinaryInsertionSort(_, _)
BinaryInsertionSort(seq, start) ==
    IF start >= Len(seq) THEN seq
    ELSE LET pivot == seq[start + 1]
             p == InsertionPoint(seq, pivot, 0, start)
         IN  BinaryInsertionSort(
                SubSeq(seq, 1, p) \o <<pivot>> \o SubSeq(seq, p + 1, start)
                    \o SubSeq(seq, start + 2, Len(seq)),
                start + 1)

\* activeDisplays.sort(...) as the runtime sorts an array of fewer than 64
\* elements: the leading run, then binary insertion of the rest
SortDisplays(seq) ==
    LET counted == CountAndMakeRun(seq)
    IN  BinaryInsertionSort(counted.seq, counted.run)

DefaultPermalink == "/display/group/"

\* the entry getActiveDisplays builds for a group room
Display(rms, conns, perm, roomName) ==
    LET groupId == GroupIdOfRoom(roomName)
        clientCount == getRoomClientCount(rms, roomName)
        clients == RoomMembers(rms, roomName)
        clientDetails ==
            {[socketId |-> c,
              ipAddress |-> IF c \in DOMAIN conns THEN JsStr(conns[c].ipAddress)
                            ELSE JsUndef] : c \in clients}
        storedPermalink == IF groupId \in DOMAIN perm THEN perm[groupId] ELSE JsUndef
        actualPermalink == IF Truthy(storedPermalink) THEN storedPermalink
                           ELSE JsStr(DefaultPermalink \o groupId)
    IN  [groupNumber |-> parseInt(groupId), permalink |-> actualPermalink,
         roomName |-> roomName, clientCount |-> clientCount,
         clients |-> clientDetails, isActive |-> clientCount > 0]

\* the group rooms are visited in the order of the adapter's Map
getActiveDisplays(rms, conns, perm) ==
    LET groupRooms == SelectSeq(rms.keys, LAMBDA r : StartsWith(r, GroupPrefix))
        displays == [i \in 1..Len(groupRooms) |->
                        Display(rms, conns, perm, groupRooms[i])]
    IN  SortDisplays(SelectSeq(displays, LAMBDA d : d.isActive))

----------------------------------------------------------------------------
(* routes/apiRoutes *)

\* the body of an HTTP response, in the shape of an emit to nobody
Response(route, body) ==
    [kind |-> "response", target |-> "", event |-> JsStr(route), data |-> body,
     recipients |-> {}]

\* GET /displays/active
displaysActive(rms, conns, perm) ==
    LET activeDisplays == getActiveDisplays(rms, conns, perm)
    IN  Response("GET /displays/active",
                 [success |-> TRUE, totalActiveDisplays |-> Len(activeDisplays),
                  displays |-> activeDisplays])

----------------------------------------------------------------------------
(* server.js: the manual broadcast route. Its rooms are those the          *)
(* join-group, leave-group, join-prescription and leave-prescription       *)
(* listeners of server.js keep, which join and leave as the handlers       *)
(* below do.                                                               *)

AllClients == "all clients"

\* mutant: without a room nothing is emitted
ManualEmits_RoomOnly(rms, event, data, room) ==
    IF Truthy(room) THEN <<RoomEmit(rms, JsString(room), event, data)>>
    ELSE <<>>

\* mutant: the room is ignored, every client gets the event
ManualEmits_Everyone(rms, event, data, room) ==
    <<AllEmit(rms, event, data)>>

\* if (room) io.to(room).emit(event, data) else io.emit(event, data)
ManualEmits(rms, event, data, room) ==
    IF Truthy(room) THEN <<RoomEmit(rms, JsString(room), event, data)>>
    ELSE <<AllEmit(rms, event, data)>>

\* POST /broadcast with a body { event, data, room }: the emits, then the
\* response
postBroadcast(rms, event, data, room) ==
    IF ~Truthy(event) \/ ~Truthy(data)
    THEN <<Response("POST /broadcast",
                    [status |-> 400, error |-> "Event and data are required"])>>
    ELSE Append(ManualEmits(rms, event, data, room),
                Response("POST /broadcast",
                    [status |-> 200, success |-> TRUE,
                     message |-> "Event " \o JsString(event)
                                    \o " broadcasted successfully",
                     target |-> IF Truthy(room) THEN room ELSE JsStr(AllClients)]))

----------------------------------------------------------------------------
(* handlers/socketHandlers: each handler gives the rooms, the permalinks   *)
(* and the emits it leaves, and whether a fault escaped it.                *)

\* the argument of join-group / leave-group: an object, or nothing
NoPayload == [t |-> "undef", groupId |-> JsUndef, groupName |-> JsUndef]
NullPayload == [t |-> "null", groupId |-> JsUndef, groupName |-> JsUndef]
Payload(groupId, groupName) ==
    [t |-> "obj", groupId |-> groupId, groupName |-> groupName]

ErrorData(message) == [message |-> message]

\* a handler body that ran to its end, and one that threw
Returned(rms, perm, emits) ==
    [rooms |-> rms, permalinks |-> perm, out |-> emits, threw |-> FALSE]
Thrown(rms, perm, emits) ==
    [rooms |-> rms, permalinks |-> perm, out |-> emits, threw |-> TRUE]

\* mutant: the handler has no try/catch
CatchEmit_Rethrow(r, sid, message) == r

\* try { body } catch (error) { socket.emit('error', { message }) }
CatchEmit(r, sid, message) ==
    IF r.threw
    THEN [r EXCEPT !.out = Append(@, SocketEmit(sid, "error", ErrorData(message))),
                   !.threw = FALSE]
    ELSE r

\* const { groupId, groupName } = data throws on undefined and null
Destructurable(data) == data.t \notin {"undef", "null"}

\* mutant: the previous group rooms are not left
PreviousGroupRooms_None(rms, sid) == {}

\* mutant: every room but the socket's own is left
PreviousGroupRooms_AnyRoom(rms, sid) ==
    {r \in SocketRooms(rms, sid) : r # sid}

\* the rooms socket.rooms.forEach leaves: every group room of the socket
PreviousGroupRooms(rms, sid) ==
    {r \in SocketRooms(rms, sid) : r # sid /\ StartsWith(r, GroupPrefix)}

\* mutant: a request without groupId is confirmed, not refused
JoinGroupBody_ConfirmsRefusal(rms, perm, sid, data) ==
    IF ~Destructurable(data) THEN Thrown(rms, perm, <<>>)
    ELSE
        LET roomName == GroupPrefix \o JsString(data.groupId)
            perm1 == IF Truthy(data.groupName)
                     THEN setGroupPermalink(perm, data.groupId, data.groupName)
                     ELSE perm
            rms1 == SocketLeaveEach(rms, sid, PreviousGroupRooms(rms, sid))
            rms2 == SocketJoin(rms1, sid, roomName)
            joined == SocketEmit(sid, "joined-group",
                        [groupId |-> data.groupId, groupName |-> data.groupName,
                         roomName |-> roomName])
        IN  IF ~Truthy(data.groupId) THEN Returned(rms, perm, <<joined>>)
            ELSE Returned(rms2, perm1, <<joined>>)

\* mutant: groupId is not validated
JoinGroupBody_Unvalidated(rms, perm, sid, data) ==
    IF ~Destructurable(data) THEN Thrown(rms, perm, <<>>)
    ELSE
        LET roomName == GroupPrefix \o JsString(data.groupId)
            perm1 == IF Truthy(data.groupName)
                     THEN setGroupPermalink(perm, data.groupId, data.groupName)
                     ELSE perm
            rms1 == SocketLeaveEach(rms, sid, PreviousGroupRooms(rms, sid))
            rms2 == SocketJoin(rms1, sid, roomName)
        IN  Returned(rms2, perm1,
                <<SocketEmit(sid, "joined-group",
                    [groupId |-> data.groupId, groupName |-> data.groupName,
                     roomName |-> roomName])>>)

\* mutant: only a missing or null groupId is refused
JoinGroupBody_NullCheck(rms, perm, sid, data) ==
    IF ~Destructurable(data) THEN Thrown(rms, perm, <<>>)
    ELSE IF data.groupId.t \in {"undef", "null"}
    THEN Returned(rms, perm,
            <<SocketEmit(sid, "error", ErrorData("Group ID is required"))>>)
    ELSE
        LET roomName == GroupPrefix \o JsString(data.groupId)
            perm1 == IF Truthy(data.groupName)
                     THEN setGroupPermalink(perm, data.groupId, data.groupName)
                     ELSE perm
            rms1 == SocketLeaveEach(rms, sid, PreviousGroupRooms(rms, sid))
            rms2 == SocketJoin(rms1, sid, roomName)
        IN  Returned(rms2, perm1,
                <<SocketEmit(sid, "joined-group",
                    [groupId |-> data.groupId, groupName |-> data.groupName,
                     roomName |-> roomName])>>)

JoinGroupBody(rms, perm, sid, data) ==
    IF ~Destructurable(data) THEN Thrown(rms, perm, <<>>)
    ELSE IF ~Truthy(data.groupId)
    THEN Returned(rms, perm,
            <<SocketEmit(sid, "error", ErrorData("Group ID is required"))>>)
    ELSE
        LET roomName == GroupPrefix \o JsString(data.groupId)
            perm1 == IF Truthy(data.groupName)
                     THEN setGroupPermalink(perm, data.groupId, data.groupName)
                     ELSE perm
            rms1 == SocketLeaveEach(rms, sid, PreviousGroupRooms(rms, sid))
            rms2 == SocketJoin(rms1, sid, roomName)
        IN  Returned(rms2, perm1,
                <<SocketEmit(sid, "joined-group",
                    [groupId |-> data.groupId, groupName |-> data.groupName,
                     roomName |-> roomName])>>)

handleJoinGroup(rms, perm, sid, data) ==
    CatchEmit(JoinGroupBody(rms, perm, sid, data), sid, "Failed to join group")

\* mutant: the permalink is removed whoever remains in the room
LeaveGroupBody_AlwaysRemoves(rms, perm, sid, data) ==
    IF ~Destructurable(data) THEN Thrown(rms, perm, <<>>)
    ELSE
        LET roomName == GroupPrefix \o JsString(data.groupId)
            rms1 == SocketLeave(rms, sid, roomName)
        IN  Returned(rms1, removeGroupPermalink(perm, data.groupId),
                <<SocketEmit(sid, "left-group",
                    [groupId |-> data.groupId, roomName |-> roomName])>>)

\* mutant: the request is confirmed and the socket stays in the room
LeaveGroupBody_AcksOnly(rms, perm, sid, data) ==
    IF ~Destructurable(data) THEN Thrown(rms, perm, <<>>)
    ELSE Returned(rms, perm,
            <<SocketEmit(sid, "left-group",
                [groupId |-> data.groupId,
                 roomName |-> GroupPrefix \o JsString(data.groupId)])>>)

LeaveGroupBody(rms, perm, sid, data) ==
    IF ~Destructurable(data) THEN Thrown(rms, perm, <<>>)
    ELSE
        LET roomName == GroupPrefix \o JsString(data.groupId)
            rms1 == SocketLeave(rms, sid, roomName)
            remainingClients == getRoomClientCount(rms1, roomName)
            perm1 == IF remainingClients = 0
                     THEN removeGroupPermalink(perm, data.groupId)
                     ELSE perm
        IN  Returned(rms1, perm1,
                <<SocketEmit(sid, "left-group",
                    [groupId |-> data.groupId, roomName |-> roomName])>>)

handleLeaveGroup(rms, perm, sid, data) ==
    CatchEmit(LeaveGroupBody(rms, perm, sid, data), sid, "Failed to leave group")

PrescriptionRoom == "prescription"

AckData(message, sid, roomName) ==
    [message |-> message, socketId |-> sid, roomName |-> roomName]

handleJoinPrescription(rms, perm, sid) ==
    CatchEmit(
        Returned(SocketJoin(rms, sid, PrescriptionRoom), perm,
            <<SocketEmit(sid, "prescription-joined",
                AckData("Successfully joined prescription room", sid,
                        PrescriptionRoom))>>),
        sid, "Failed to join prescription room")

handleLeavePrescription(rms, perm, sid) ==
    CatchEmit(
        Returned(SocketLeave(rms, sid, PrescriptionRoom), perm,
            <<SocketEmit(sid, "prescription-left",
                AckData("Successfully left prescription room", sid,
                        PrescriptionRoom))>>),
        sid, "Failed to leave prescription room")

\* a call of the 'disconnect' listener on the registry, with the registry
\* as the call leaves it
Called(call, perm, conns) ==
    [call |-> call, permalinks |-> perm, connections |-> conns]

\* mutant: the connection record is not removed
handleDisconnect_KeepsRecord(rms, perm, conns, sid) ==
    LET swept == cleanupEmptyGroups(rms, perm)
    IN  [permalinks |-> swept, connections |-> conns,
         steps |-> <<Called("cleanupEmptyGroups", swept, conns)>>]

\* mutant: the record is removed first, and the permalinks are swept then
handleDisconnect_RemovesFirst(rms, perm, conns, sid) ==
    LET removed == removeConnection(conns, sid)
        swept == cleanupEmptyGroups(rms, perm)
    IN  [permalinks |-> swept, connections |-> removed,
         steps |-> <<Called("removeConnection", perm, removed),
                     Called("cleanupEmptyGroups", swept, removed)>>]

\* the 'disconnect' listener: cleanupEmptyGroups(), then
\* removeConnection(socket.id), each on the registry the call before it
\* left. The transport has already taken the socket out of its rooms when
\* the listener runs.
handleDisconnect(rms, perm, conns, sid) ==
    LET swept == cleanupEmptyGroups(rms, perm)
        removed == removeConnection(conns, sid)
    IN  [permalinks |-> swept, connections |-> removed,
         steps |-> <<Called("cleanupEmptyGroups", swept, conns),
                     Called("removeConnection", swept, removed)>>]

\* mutant: the ping is not answered
handlePing_NoReply(sid) == <<>>

\* the 'ping' listener
handlePing(sid) == <<SocketEmit(sid, "pong", [pong |-> TRUE])>>

----------------------------------------------------------------------------
(* server.js: the listeners of a connection in the one-file server. It     *)
(* keeps no permalinks.                                                    *)

\* mutant: the relay is written to the sender too
onAny_ToSenderToo(rms, sid, eventName, args) ==
    <<Emit("broadcast", "", JsStr(eventName), args, Connected(rms))>>

\* socket.onAny: socket.broadcast.emit(eventName, ...args), to the sockets
\* of the namespace but the one of this id
onAny(rms, sid, eventName, args) ==
    <<Emit("broadcast", "", JsStr(eventName), args, Connected(rms) \ {sid})>>

\* socket.on('join-group')
MonolithJoinGroup(rms, sid, data) ==
    CatchEmit(
        IF ~Destructurable(data) THEN Thrown(rms, EmptyMap, <<>>)
        ELSE IF ~Truthy(data.groupId)
        THEN Returned(rms, EmptyMap,
                <<SocketEmit(sid, "error", ErrorData("Group ID is required"))>>)
        ELSE
            LET roomName == GroupPrefix \o JsString(data.groupId)
                rms1 == SocketLeaveEach(rms, sid, PreviousGroupRooms(rms, sid))
                rms2 == SocketJoin(rms1, sid, roomName)
            IN  Returned(rms2, EmptyMap,
                    <<SocketEmit(sid, "joined-group",
                        [groupId |-> data.groupId, groupName |-> data.groupName,
                         roomName |-> roomName])>>),
        sid, "Failed to join group")

\* socket.on('leave-group')
MonolithLeaveGroup(rms, sid, data) ==
    CatchEmit(
        IF ~Destructurable(data) THEN Thrown(rms, EmptyMap, <<>>)
        ELSE
            LET roomName == GroupPrefix \o JsString(data.groupId)
            IN  Returned(SocketLeave(rms, sid, roomName), EmptyMap,
                    <<SocketEmit(sid, "left-group",
                        [groupId |-> data.groupId, roomName |-> roomName])>>),
        sid, "Failed to leave group")

\* the listener registered for the event's name, if there is one
MonolithListener(rms, sid, eventName, data) ==
    CASE eventName = "join-group" -> MonolithJoinGroup(rms, sid, data)
      [] eventName = "leave-group" -> MonolithLeaveGroup(rms, sid, data)
      [] eventName = "join-prescription" ->
            handleJoinPrescription(rms, EmptyMap, sid)
      [] eventName = "leave-prescription" ->
            handleLeavePrescription(rms, EmptyMap, sid)
      [] eventName = "ping" -> Returned(rms, EmptyMap, handlePing(sid))
      [] OTHER -> Returned(rms, EmptyMap, <<>>)

----------------------------------------------------------------------------
(* services/broadcast *)

broadcastToClients(rms, channel, event, data, groupId) ==
    LET roomName == GroupPrefix \o JsString(groupId)
        clientCount == getRoomClientCount(rms, roomName)
    IN  IF clientCount = 0 THEN <<>>
        ELSE <<RoomEmit(rms, roomName, event, data)>>

\* mutant: the category path forwards the bare event name, as the group
\* path does
broadcastToPrescriptionRoom_BareEvent(rms, channel, event, data) ==
    IF getRoomClientCount(rms, "prescription") = 0 THEN <<>>
    ELSE <<Emit("room", "prescription", event, data,
                RoomMembers(rms, "prescription"))>>

broadcastToPrescriptionRoom(rms, channel, event, data) ==
    LET roomName == PrescriptionRoom
        clientCount == getRoomClientCount(rms, roomName)
    IN  IF clientCount = 0 THEN <<>>
        ELSE <<RoomEmit(rms, roomName,
                        JsStr(channel \o ":" \o JsString(event)), data)>>

----------------------------------------------------------------------------
(* services/redis *)

\* bus message bodies, as the text published
MsgGarbage == "not json"
MsgNull == "null"
MsgUpdate == "{\"event\":\"update\",\"data\":{\"n\":1}}"
MsgPrescription == "{\"event\":\"prescription.ready\",\"data\":{\"n\":1}}"
MsgNoData == "{\"event\":\"update\"}"
MsgNoEvent == "{\"data\":{\"n\":1}}"
MsgNullData == "{\"event\":\"update\",\"data\":null}"
MsgZeroData == "{\"event\":\"update\",\"data\":0}"
MsgNumberEvent == "{\"event\":7,\"data\":{\"n\":1}}"

Messages ==
    {MsgGarbage, MsgNull, MsgUpdate, MsgPrescription, MsgNoData, MsgNoEvent,
     MsgNullData, MsgZeroData, MsgNumberEvent}

\* what JSON.parse gives: a syntax error, or a value with its event and data
\* properties (undefined where the value has none)
Parsed(t, event, data) == [t |-> t, event |-> event, data |-> data]

JsonParse(message) ==
    CASE message = MsgNull -> Parsed("null", JsUndef, JsUndef)
      [] message = MsgUpdate ->
            Parsed("obj", JsStr("update"), JsObj("{\"n\":1}"))
      [] message = MsgPrescription ->
            Parsed("obj", JsStr("prescription.ready"), JsObj("{\"n\":1}"))
      [] message = MsgNoData -> Parsed("obj", JsStr("update"), JsUndef)
      [] message = MsgNoEvent -> Parsed("obj", JsUndef, JsObj("{\"n\":1}"))
      [] message = MsgNullData -> Parsed("obj", JsStr("update"), JsNull)
      [] message = MsgZeroData -> Parsed("obj", JsStr("update"), JsNum(0))
      [] message = MsgNumberEvent -> Parsed("obj", JsNum(7), JsObj("{\"n\":1}"))
      [] OTHER -> Parsed("error", JsUndef, JsUndef)

\* what a listener leaves: its emits, and whether it threw
Sent(emits) == [out |-> emits, threw |-> FALSE]
Threw(emits) == [out |-> emits, threw |-> TRUE]

AntrianPrefix == "antrian."
PrescriptionPrefix == "prescription."

\* mutant: the generic path emits the event without the channel prefix
handleGeneralMessage_Unprefixed(rms, channel, data) ==
    IF data.event.t # "str" THEN Threw(<<>>)
    ELSE IF StartsWith(data.event.s, PrescriptionPrefix)
    THEN Sent(broadcastToPrescriptionRoom(rms, channel, data.event, data.data))
    ELSE IF ~StartsWith(channel, AntrianPrefix)
    THEN Sent(<<AllEmit(rms, data.event, data.data)>>)
    ELSE Sent(<<>>)

\* mutant: the generic path does not look at the channel's namespace
handleGeneralMessage_AnyNamespace(rms, channel, data) ==
    IF data.event.t # "str" THEN Threw(<<>>)
    ELSE IF StartsWith(data.event.s, PrescriptionPrefix)
    THEN Sent(broadcastToPrescriptionRoom(rms, channel, data.event, data.data))
    ELSE Sent(<<AllEmit(rms, JsStr(channel \o ":" \o JsString(data.event)),
                        data.data)>>)

\* mutant: a prescription event is also emitted to all clients (if, not
\* else if)
handleGeneralMessage_AlsoGlobal(rms, channel, data) ==
    IF data.event.t # "str" THEN Threw(<<>>)
    ELSE LET category ==
                IF StartsWith(data.event.s, PrescriptionPrefix)
                THEN broadcastToPrescriptionRoom(rms, channel, data.event,
                                                 data.data)
                ELSE <<>>
             general ==
                IF ~StartsWith(channel, AntrianPrefix)
                THEN <<AllEmit(rms,
                               JsStr(channel \o ":" \o JsString(data.event)),
                               data.data)>>
                ELSE <<>>
         IN  Sent(category \o general)

handleGeneralMessage(rms, channel, data) ==
    LET event == data.event
    IN  IF event.t # "str" THEN Threw(<<>>)   \* event.startsWith is no function
        ELSE IF StartsWith(event.s, PrescriptionPrefix)
        THEN Sent(broadcastToPrescriptionRoom(rms, channel, event, data.data))
        ELSE IF ~StartsWith(channel, AntrianPrefix)
        THEN Sent(<<AllEmit(rms, JsStr(channel \o ":" \o JsString(event)),
                            data.data)>>)
        ELSE Sent(<<>>)

ProcessMessageBody(rms, message, channel, isAntrian) ==
    LET data == JsonParse(message)
    IN  IF data.t = "error" THEN Threw(<<>>)            \* JSON.parse throws
        ELSE IF data.t \in {"null", "undef"} THEN Threw(<<>>)  \* data.event
        ELSE IF ~Truthy(data.event) \/ ~Truthy(data.data) THEN Sent(<<>>)
        ELSE IF isAntrian
        THEN LET groupId == extractGroupIdFromChannel(channel)
             IN  IF ~Truthy(groupId) THEN Sent(<<>>)
                 ELSE Sent(broadcastToClients(rms, channel, data.event,
                                              data.data, groupId))
        ELSE handleGeneralMessage(rms, channel, data)

\* mutant: no try/catch around the listener's body
CatchLog_Rethrow(r) == r

\* try { body } catch (error) { logger.error(...) }
CatchLog(r) == IF r.threw THEN [r EXCEPT !.threw = FALSE] ELSE r

processMessage(rms, message, channel, isAntrian) ==
    CatchLog(ProcessMessageBody(rms, message, channel, isAntrian))

AntrianPattern == "antrian.*"
AllPattern == "*"

\* mutant: both subscriptions pass isAntrian = true
Listener_AlwaysAntrian(rms, pattern, message, channel) ==
    processMessage(rms, message, channel, TRUE)

\* the listener pSubscribe registers for a pattern
Listener(rms, pattern, message, channel) ==
    processMessage(rms, message, channel, pattern = AntrianPattern)

\* the bus's glob match of a pattern that ends with *
PatternMatches(pattern, channel) ==
    StartsWith(channel, SubSeq(pattern, 1, Len(pattern) - 1))

----------------------------------------------------------------------------
(* Inputs *)

GroupNumbers == {1, 2}

\* groupId as clients send it: missing, or a number
GroupIds == {JsUndef} \cup {JsNum(g) : g \in GroupNumbers}

\* join-group requests, with groupName missing or given
JoinPayloads ==
    {NoPayload, NullPayload}
        \cup {Payload(g, n) : g \in GroupIds, n \in {JsUndef, JsStr("A")}}

LeavePayloads ==
    {NoPayload, NullPayload} \cup {Payload(g, JsUndef) : g \in GroupIds}

GroupChannel(g) == GroupPattern \o NumToStr(g)

Channels ==
    {GroupChannel(g) : g \in GroupNumbers}
        \cup {"antrian.status", "antrian.group.x", "orders.42"}

IpAddress == "10.0.0.1"

\* the rooms a POST /broadcast body names, or none
PushRooms == {JsUndef, JsStr("group_1"), JsStr("prescription")}

----------------------------------------------------------------------------
(* The state machine *)

\* no publication is being delivered
Idle == [channel |-> "", message |-> "", pending |-> {}, handled |-> <<>>,
         sent |-> <<>>]

\* the handler that ran last: a client handler with the rooms its socket was
\* in when it started, or a bus listener with the patterns handled and the
\* emits made so far for its publication; of the 'disconnect' listener, the
\* calls it made on the registry
ClientRan(op, sid, was) ==
    [op |-> op, sid |-> sid, was |-> was, pattern |-> "", channel |-> "",
     message |-> "", handled |-> <<>>, sent |-> <<>>, steps |-> <<>>]

ListenerRan(pattern, channel, message, handled, sent) ==
    [op |-> "pmessage", sid |-> "", was |-> {}, pattern |-> pattern,
     channel |-> channel, message |-> message, handled |-> handled,
     sent |-> sent, steps |-> <<>>]

\* what a socket reads of an emit
Received(e) == [event |-> e.event, data |-> e.data]

\* mutant: the transport hands the newest emit to the client first
DeliverOne_Reordered(box, e) ==
    [s \in DOMAIN box |->
        IF s \in e.recipients THEN <<Received(e)>> \o box[s] ELSE box[s]]

\* an emit is written to the connection of each of its recipients, behind
\* what was written to it before
DeliverOne(box, e) ==
    [s \in DOMAIN box |->
        IF s \in e.recipients THEN Append(box[s], Received(e)) ELSE box[s]]

\* the emits of a handler, written in the order the handler made them
RECURSIVE Deliver(_, _)
Deliver(box, emits) ==
    IF emits = <<>> THEN box
    ELSE Deliver(DeliverOne(box, Head(emits)), Tail(emits))

\* the most emits and the most publications recorded
MaxRecorded == 3
MaxPublished == 2

\* the number of emits in the streams of a set of sockets
RECURSIVE Recorded(_, _)
Recorded(box, sids) ==
    IF sids = {} THEN 0
    ELSE LET s == CHOOSE x \in sids : TRUE
         IN  Len(box[s]) + Recorded(box, sids \ {s})

\* the streams after a handler's emits; recording stops a handler whose
\* emits no longer fit
Observe(emits) ==
    /\ IF observed
       THEN LET box == Deliver(inbox, emits)
            IN  /\ Recorded(box, DOMAIN box) <= MaxRecorded
                /\ inbox' = box
       ELSE inbox' = inbox
    /\ observed' = observed

\* a step of start() or of shutdown(), with its outcome
LifecycleRan(op, pattern, outcome) ==
    [ClientRan(op, "", {}) EXCEPT !.pattern = pattern, !.message = outcome]

Constructed ==
    /\ rooms = NoRooms
    /\ activeConnections = EmptyMap
    /\ groupPermalinks = EmptyMap
    /\ subscribed = {}
    /\ stage = "constructed"
    /\ inflight = Idle
    /\ last = ClientRan("constructed", "", {})
    /\ out = <<>>
    /\ crashed = FALSE
    /\ inbox = [s \in Sockets |-> <<>>]
    /\ published = <<>>
    /\ ticks = <<>>
    /\ runs = {}

Init == Constructed /\ observed = FALSE

\* the same, with the clients' streams recorded
InitObserved == Constructed /\ observed = TRUE

\* mutant: the listeners are set up whether the handles connected or not
AfterConnect_Unchecked(ok) == "connected"

\* RedisService.initialize, await Promise.all([connect, connect]): a failure
\* is caught and initialize ends, without setupListeners
AfterConnect(ok) == IF ok THEN "connected" ELSE "initialized"

\* redisSubscriber.pSubscribe(pattern, listener), awaited: the subscriber
\* calls the listener once the subscription is confirmed
pSubscribe(subs, pattern, ok) == IF ok THEN subs \cup {pattern} ELSE subs

\* WebSocketServer.start up to the first await of RedisService.initialize:
\* the two handles are made and connect, or one of them fails to
Start(ok) ==
    /\ stage = "constructed"
    /\ stage' = AfterConnect(ok)
    /\ UNCHANGED <<ticks, runs>>
    /\ last' = LifecycleRan("start", "", IF ok THEN "ok" ELSE "failed")
    /\ out' = <<>>
    /\ UNCHANGED <<rooms, activeConnections, groupPermalinks, subscribed,
                   inflight, crashed, observed, inbox, published>>

\* setupListeners up to its second await: 'antrian.*' is subscribed, or the
\* failure is thrown on to initialize, which catches it
SubscribeAntrian(ok) ==
    /\ stage = "connected"
    /\ subscribed' = pSubscribe(subscribed, AntrianPattern, ok)
    /\ stage' = IF ok THEN "antrian-subscribed" ELSE "initialized"
    /\ UNCHANGED <<ticks, runs>>
    /\ last' = LifecycleRan("subscribe", AntrianPattern,
                          IF ok THEN "ok" ELSE "failed")
    /\ out' = <<>>
    /\ UNCHANGED <<rooms, activeConnections, groupPermalinks, inflight, crashed,
                   observed, inbox, published>>

\* the rest of setupListeners and of initialize: '*' is subscribed, or the
\* failure is caught. The confirmation does not come between the pmessages
\* of one publication.
SubscribeAll(ok) ==
    /\ stage = "antrian-subscribed"
    /\ inflight = Idle
    /\ subscribed' = pSubscribe(subscribed, AllPattern, ok)
    /\ stage' = "initialized"
    /\ UNCHANGED <<ticks, runs>>
    /\ last' = LifecycleRan("subscribe", AllPattern,
                          IF ok THEN "ok" ELSE "failed")
    /\ out' = <<>>
    /\ UNCHANGED <<rooms, activeConnections, groupPermalinks, inflight, crashed,
                   observed, inbox, published>>

\* the rest of start: server.listen
Listen ==
    /\ stage = "initialized"
    /\ stage' = "listening"
    /\ UNCHANGED <<ticks, runs>>
    /\ last' = LifecycleRan("listen", "", "ok")
    /\ out' = <<>>
    /\ UNCHANGED <<rooms, activeConnections, groupPermalinks, subscribed,
                   inflight, crashed, observed, inbox, published>>

\* WebSocketServer.shutdown, asked of a server that listens, up to the end of
\* redisSubscriber.quit: no listener is called any more. (Asked of a server
\* that was not started, it has no handle to quit and closes at once.) The
\* pmessages of a publication all come before the reply to quit.
Shutdown ==
    /\ stage \in {"constructed", "listening"}
    /\ inflight = Idle
    /\ ticks = <<>>
    /\ subscribed' = {}
    /\ stage' = IF stage = "constructed" THEN "closed" ELSE "quit"
    /\ UNCHANGED <<ticks, runs>>
    /\ last' = LifecycleRan("shutdown", "", "ok")
    /\ out' = <<>>
    /\ UNCHANGED <<rooms, activeConnections, groupPermalinks, inflight,
                   crashed, observed, inbox, published>>

\* the rest of shutdown: redisPublisher.quit, then server.close. The server
\* accepts nothing new; the connections it has stay, and the process exits
\* when the last of them has ended
Close ==
    /\ stage = "quit"
    /\ ticks = <<>>
    /\ stage' = "closed"
    /\ UNCHANGED <<ticks, runs>>
    /\ last' = LifecycleRan("close", "", "ok")
    /\ out' = <<>>
    /\ UNCHANGED <<rooms, activeConnections, groupPermalinks, subscribed,
                   inflight, crashed, observed, inbox, published>>

\* mutant: handleJoinGroup awaits the leaving of the previous rooms before
\* it joins the new one
Awaits_BeforeJoin(handler, pc) == handler = "join-group" /\ pc = "join"

\* the statements before which a handler gives the thread back to the
\* runtime: none, the client listeners and the bus listeners are plain
\* functions, without await, timer or callback
Awaits(handler, pc) == FALSE

\* no handler is on the thread: the handlers called have ended, or wait.
\* The runtime calls a handler then, and only then.
OffThread == \A r \in runs : Awaits(r.handler, r.pc)

\* the server accepts connections and requests; what was left for the next
\* tick runs before anything else is read
Listening ==
    stage \in {"listening", "quit"} /\ ~crashed /\ ticks = <<>> /\ OffThread

\* an event of a connected socket is handled while the process lives
Handles(sid) ==
    ~crashed /\ sid \in Connected(rooms) /\ ticks = <<>> /\ OffThread

\* io.on('connection'): the transport has put the socket in its own room
Connect(sid) ==
    /\ Listening
    /\ sid \notin Connected(rooms)
    /\ rooms' = SocketJoin(rooms, sid, sid)
    /\ activeConnections' = addConnection(activeConnections, sid, IpAddress)
    /\ UNCHANGED <<ticks, runs>>
    /\ last' = ClientRan("connection", sid, {})
    /\ out' = <<>>
    /\ UNCHANGED <<groupPermalinks, subscribed, stage, inflight, crashed,
                   observed, inbox, published>>

\* a handler's result taken over
Apply(r, op, sid) ==
    /\ rooms' = r.rooms
    /\ groupPermalinks' = r.permalinks
    /\ out' = r.out
    /\ crashed' = r.threw
    /\ UNCHANGED <<ticks, runs>>
    /\ last' = ClientRan(op, sid, SocketRooms(rooms, sid))
    /\ Observe(r.out)
    /\ UNCHANGED <<activeConnections, subscribed, stage, inflight,
                   published>>

JoinGroup(sid, data) ==
    /\ Handles(sid)
    /\ Apply(handleJoinGroup(rooms, groupPermalinks, sid, data),
             "join-group", sid)

LeaveGroup(sid, data) ==
    /\ Handles(sid)
    /\ Apply(handleLeaveGroup(rooms, groupPermalinks, sid, data),
             "leave-group", sid)

JoinPrescription(sid) ==
    /\ Handles(sid)
    /\ Apply(handleJoinPrescription(rooms, groupPermalinks, sid),
             "join-prescription", sid)

LeavePrescription(sid) ==
    /\ Handles(sid)
    /\ Apply(handleLeavePrescription(rooms, groupPermalinks, sid),
             "leave-prescription", sid)

Ping(sid) ==
    /\ Handles(sid)
    /\ out' = handlePing(sid)
    /\ UNCHANGED <<ticks, runs>>
    /\ last' = ClientRan("ping", sid, SocketRooms(rooms, sid))
    /\ Observe(handlePing(sid))
    /\ UNCHANGED <<rooms, activeConnections, groupPermalinks, subscribed,
                   stage, inflight, crashed, published>>

\* the most events of one socket that are decoded in one read
MaxTicks == 2

\* server.js, io.on('connection'): the transport has put the socket in its
\* own room; the record holds the time of the last activity, here the
\* listener in which the clock was read
MonolithConnect(sid) ==
    /\ Listening
    /\ sid \notin Connected(rooms)
    /\ rooms' = SocketJoin(rooms, sid, sid)
    /\ activeConnections' =
            MapSet(activeConnections, sid,
                   [id |-> sid, ipAddress |-> IpAddress,
                    lastActivity |-> "connection"])
    /\ last' = ClientRan("connection", sid, {})
    /\ out' = <<>>
    /\ UNCHANGED <<groupPermalinks, subscribed, stage, inflight, crashed,
                   observed, inbox, published, ticks, runs>>

\* server.js: a packet of a connected socket is decoded, an event
\* ("packet") or the DISCONNECT of the namespace ("disconnect"). The
\* transport hands it to the socket on the next tick; the packets that are
\* read with it, and the close of the connection if the read holds it,
\* come before that tick.
Decoded(sid, kind, eventName, args) ==
    /\ ~crashed
    /\ sid \in Connected(rooms)
    /\ Len(ticks) < MaxTicks
    /\ \A i \in DOMAIN ticks :
            ticks[i].sid = sid /\ ticks[i].kind \in {"packet", "disconnect"}
    /\ ticks' = Append(ticks, [kind |-> kind, sid |-> sid,
                               eventName |-> eventName, args |-> args])
    /\ last' = [ClientRan("decoded", sid, SocketRooms(rooms, sid))
                    EXCEPT !.message = eventName]
    /\ out' = <<>>
    /\ UNCHANGED <<rooms, activeConnections, groupPermalinks, subscribed,
                   stage, inflight, crashed, observed, inbox, published,
                   runs>>

\* server.js, socket.onAny: the tick of a decoded event. The time of the
\* last activity is written into the record if there is one, and the event
\* is relayed, whether the socket is still connected or not; the listener
\* of the event's name is left for the tick after the ticks already waiting.
ClientEvent ==
    /\ ~crashed
    /\ ticks # <<>>
    /\ Head(ticks).kind = "packet"
    /\ LET t == Head(ticks)
       IN  /\ activeConnections' =
                    IF t.sid \in DOMAIN activeConnections
                    THEN [activeConnections
                            EXCEPT ![t.sid].lastActivity = "onAny"]
                    ELSE activeConnections
           /\ out' = onAny(rooms, t.sid, t.eventName, t.args)
           /\ Observe(onAny(rooms, t.sid, t.eventName, t.args))
           /\ ticks' = Append(Tail(ticks), [t EXCEPT !.kind = "listener"])
           /\ last' = [ClientRan("onAny", t.sid, SocketRooms(rooms, t.sid))
                           EXCEPT !.message = t.eventName]
    /\ UNCHANGED <<rooms, groupPermalinks, subscribed, stage, inflight,
                   crashed, published, runs>>

\* server.js, socket.on(name): the tick after the relay. The listener of
\* the event's name is called with the first argument if the socket is
\* still connected, and the event is ignored if it is not.
Dispatch ==
    /\ ~crashed
    /\ ticks # <<>>
    /\ Head(ticks).kind = "listener"
    /\ LET t == Head(ticks)
           data == IF t.args = <<>> THEN NoPayload ELSE t.args[1]
           r == MonolithListener(rooms, t.sid, t.eventName, data)
       IN  IF t.sid \in Connected(rooms)
           THEN /\ rooms' = r.rooms
                /\ out' = r.out
                /\ crashed' = r.threw
                /\ Observe(r.out)
                /\ last' = ClientRan(t.eventName, t.sid,
                                     SocketRooms(rooms, t.sid))
           ELSE /\ out' = <<>>
                /\ last' = [ClientRan("ignored", t.sid, {})
                                EXCEPT !.message = t.eventName]
                /\ UNCHANGED <<rooms, crashed, observed, inbox>>
    /\ ticks' = Tail(ticks)
    /\ UNCHANGED <<activeConnections, groupPermalinks, subscribed, stage,
                   inflight, published, runs>>

\* server.js, socket.on('disconnect'): the socket ends. Its transport is
\* closed, by itself or in the read that decoded packets of it, before any
\* of their ticks; or the tick of a DISCONNECT packet has come, with the
\* listeners of the events relayed before it still waiting. The transport
\* takes the socket out of all its rooms, its own included, and then runs
\* the listener, which deletes the record. The DISCONNECT of a socket that
\* has ended since the read does nothing.
MonolithDisconnect(sid) ==
    /\ ~crashed
    /\ \/ /\ sid \in Connected(rooms)
          /\ \A i \in DOMAIN ticks :
                  /\ ticks[i].sid = sid
                  /\ ticks[i].kind \in {"packet", "disconnect"}
          /\ ticks' = ticks
       \/ /\ ticks # <<>>
          /\ Head(ticks).kind = "disconnect"
          /\ Head(ticks).sid = sid
          /\ ticks' = Tail(ticks)
    /\ IF sid \in Connected(rooms)
       THEN /\ rooms' = SocketLeaveEach(rooms, sid, SocketRooms(rooms, sid))
            /\ activeConnections' = MapDelete(activeConnections, sid)
            /\ last' = ClientRan("disconnect", sid, SocketRooms(rooms, sid))
            /\ inbox' = [s \in DOMAIN inbox |->
                            IF s = sid THEN <<>> ELSE inbox[s]]
       ELSE /\ last' = ClientRan("gone", sid, {})
            /\ UNCHANGED <<rooms, activeConnections, inbox>>
    /\ out' = <<>>
    /\ UNCHANGED <<groupPermalinks, subscribed, stage, crashed, inflight,
                   observed, published, runs>>

\* a handler that was called and has not ended
Run(handler, sid, pc, roomName, event, data, was, members) ==
    [handler |-> handler, sid |-> sid, pc |-> pc, roomName |-> roomName,
     event |-> event, data |-> data, was |-> was, members |-> members]

\* handleJoinGroup, statement by statement: the call, up to the loop over
\* socket.rooms. A request that is refused or throws ends here, as the
\* whole handler gives it; the label of one that is accepted is stored.
JoinGroupCall(sid, data) ==
    /\ Handles(sid)
    /\ LET whole == handleJoinGroup(rooms, groupPermalinks, sid, data)
           previous == PreviousGroupRooms(rooms, sid)
       IN  IF ~Destructurable(data) \/ ~Truthy(data.groupId)
           THEN /\ groupPermalinks' = whole.permalinks
                /\ out' = whole.out
                /\ crashed' = whole.threw
                /\ runs' = runs
           ELSE /\ groupPermalinks' =
                        IF Truthy(data.groupName)
                        THEN setGroupPermalink(groupPermalinks, data.groupId,
                                               data.groupName)
                        ELSE groupPermalinks
                /\ out' = <<>>
                /\ crashed' = crashed
                /\ runs' = runs \cup
                        {Run("join-group", sid,
                             IF previous = {} THEN "join" ELSE "leave",
                             GroupPrefix \o JsString(data.groupId),
                             JsUndef, data, previous, {})}
    /\ last' = [ClientRan("call", sid, SocketRooms(rooms, sid))
                    EXCEPT !.pattern = "join-group"]
    /\ UNCHANGED <<rooms, activeConnections, subscribed, stage, inflight,
                   observed, inbox, published, ticks>>

\* the 'antrian.*' listener, statement by statement: the call, up to the
\* count of the room's clients in broadcastToClients. A message that is
\* dropped, or whose room is empty, ends here, as the whole listener gives
\* it; of one that is relayed the emit is still to come.
ProcessMessageCall(channel, message) ==
    /\ ~crashed
    /\ OffThread
    /\ ticks = <<>>
    /\ AntrianPattern \in subscribed
    /\ PatternMatches(AntrianPattern, channel)
    /\ LET whole == Listener(rooms, AntrianPattern, message, channel)
       IN  IF whole.out = <<>>
           THEN /\ crashed' = whole.threw
                /\ runs' = runs
           ELSE /\ crashed' = crashed
                /\ runs' = runs \cup
                        {Run("pmessage", "", "emit", whole.out[1].target,
                             whole.out[1].event, whole.out[1].data, {},
                             whole.out[1].recipients)}
    /\ out' = <<>>
    /\ last' = [ClientRan("call", "", {})
                    EXCEPT !.pattern = "pmessage", !.channel = channel,
                           !.message = message]
    /\ UNCHANGED <<rooms, activeConnections, groupPermalinks, subscribed,
                   stage, inflight, observed, inbox, published, ticks>>

\* the next statement of a handler that was called: socket.leave of a
\* previous group room, socket.join of the room asked for, the emit of
\* 'joined-group'; io.to(roomName).emit of the bus message. The handler
\* keeps the thread until it ends or awaits.
Statement(r) ==
    /\ ~crashed
    /\ r \in runs
    /\ \A q \in runs \ {r} : Awaits(q.handler, q.pc)
    /\ CASE r.pc = "leave" ->
              \E room \in PreviousGroupRooms(rooms, r.sid) :
                 /\ rooms' = SocketLeave(rooms, r.sid, room)
                 /\ runs' = (runs \ {r}) \cup
                        {[r EXCEPT !.pc =
                            IF PreviousGroupRooms(rooms, r.sid) = {room}
                            THEN "join" ELSE "leave"]}
                 /\ out' = <<>>
         [] r.pc = "join" ->
              /\ rooms' = SocketJoin(rooms, r.sid, r.roomName)
              /\ runs' = (runs \ {r}) \cup {[r EXCEPT !.pc = "emit"]}
              /\ out' = <<>>
         [] r.pc = "emit" /\ r.handler = "join-group" ->
              /\ out' = <<SocketEmit(r.sid, "joined-group",
                            [groupId |-> r.data.groupId,
                             groupName |-> r.data.groupName,
                             roomName |-> r.roomName])>>
              /\ runs' = runs \ {r}
              /\ rooms' = rooms
         [] r.pc = "emit" /\ r.handler = "pmessage" ->
              /\ out' = <<RoomEmit(rooms, r.roomName, r.event, r.data)>>
              /\ runs' = runs \ {r}
              /\ rooms' = rooms
    /\ last' = [ClientRan("statement", r.sid, SocketRooms(rooms, r.sid))
                    EXCEPT !.pattern = r.handler, !.message = r.pc]
    /\ UNCHANGED <<activeConnections, groupPermalinks, subscribed, stage,
                   inflight, crashed, observed, inbox, published, ticks>>

\* a GET /displays/active request is answered
GetActiveDisplays ==
    /\ Listening
    /\ out' = <<displaysActive(rooms, activeConnections, groupPermalinks)>>
    /\ UNCHANGED <<ticks, runs>>
    /\ last' = ClientRan("displays", "", {})
    /\ UNCHANGED <<rooms, activeConnections, groupPermalinks, subscribed,
                   stage, inflight, crashed, observed, inbox, published>>

\* server.js: a POST /broadcast request is answered
Broadcast(event, data, room) ==
    /\ Listening
    /\ out' = postBroadcast(rooms, event, data, room)
    /\ UNCHANGED <<ticks, runs>>
    /\ last' = ClientRan("broadcast", "", {})
    /\ Observe(postBroadcast(rooms, event, data, room))
    /\ UNCHANGED <<rooms, activeConnections, groupPermalinks, subscribed,
                   stage, inflight, crashed, published>>

\* the transport takes the socket out of all its rooms, its own included,
\* and then runs the 'disconnect' listener
Disconnect(sid) ==
    /\ Handles(sid)
    /\ LET rms == SocketLeaveEach(rooms, sid, SocketRooms(rooms, sid))
           r == handleDisconnect(rms, groupPermalinks, activeConnections, sid)
       IN  /\ rooms' = rms
           /\ groupPermalinks' = r.permalinks
           /\ activeConnections' = r.connections
           /\ last' = [ClientRan("disconnect", sid, SocketRooms(rooms, sid))
                           EXCEPT !.steps = r.steps]
    /\ UNCHANGED <<ticks, runs>>
    /\ out' = <<>>
    /\ inbox' = [s \in DOMAIN inbox |-> IF s = sid THEN <<>> ELSE inbox[s]]
    /\ UNCHANGED <<subscribed, stage, crashed, inflight, observed,
                   published>>

\* the members a publication's group room has, for the record of it
Handled(rms, channel, message) ==
    [channel |-> channel, message |-> message,
     members |-> RoomMembers(rms, GroupPrefix \o
                    JsString(extractGroupIdFromChannel(channel)))]

\* mutant: handling a bus message clears the stored labels
Relay_ClearsLabels(r, pattern, channel, message, pending, handled, sent) ==
    /\ out' = r.out
    /\ crashed' = r.threw
    /\ UNCHANGED <<ticks, runs>>
    /\ last' = ListenerRan(pattern, channel, message, handled, sent \o r.out)
    /\ inflight' = IF pending = {} THEN Idle
                   ELSE [channel |-> channel, message |-> message,
                         pending |-> pending, handled |-> handled,
                         sent |-> sent \o r.out]
    /\ groupPermalinks' = EmptyMap
    /\ Observe(r.out)
    /\ published' = IF observed /\ pattern = AntrianPattern
                    THEN Append(published, Handled(rooms, channel, message))
                    ELSE published
    /\ UNCHANGED <<rooms, activeConnections, subscribed, stage>>

\* a listener's result taken over; the publication stays in flight while a
\* pattern of it is still to be handled. The handling by the 'antrian.*'
\* listener is put on record.
Relay(r, pattern, channel, message, pending, handled, sent) ==
    /\ out' = r.out
    /\ crashed' = r.threw
    /\ UNCHANGED <<ticks, runs>>
    /\ last' = ListenerRan(pattern, channel, message, handled, sent \o r.out)
    /\ inflight' = IF pending = {} THEN Idle
                   ELSE [channel |-> channel, message |-> message,
                         pending |-> pending, handled |-> handled,
                         sent |-> sent \o r.out]
    /\ Observe(r.out)
    /\ published' = IF observed /\ pattern = AntrianPattern
                    THEN Append(published, Handled(rooms, channel, message))
                    ELSE published
    /\ UNCHANGED <<rooms, activeConnections, groupPermalinks, subscribed, stage>>

\* a publication reaches the subscriber, one pmessage per matching pattern,
\* all of them before the pmessages of the next publication; the first of
\* them is handled. The server need not listen yet.
PMessageFirst(channel, message, pattern) ==
    /\ ~crashed
    /\ ticks = <<>>
    /\ inflight = Idle
    /\ observed => Len(published) < MaxPublished
    /\ LET matching == {p \in subscribed : PatternMatches(p, channel)}
       IN  /\ pattern \in matching
           /\ Relay(Listener(rooms, pattern, message, channel),
                    pattern, channel, message,
                    matching \ {pattern}, <<pattern>>, <<>>)

\* the pmessage of the next pattern is handled; client events may have been
\* handled since the first
PMessageNext(pattern) ==
    /\ ~crashed
    /\ ticks = <<>>
    /\ pattern \in inflight.pending
    /\ Relay(Listener(rooms, pattern, inflight.message, inflight.channel),
             pattern, inflight.channel, inflight.message,
             inflight.pending \ {pattern},
             Append(inflight.handled, pattern), inflight.sent)

\* WebSocketServer: its life, its clients, its route and its bus
Next ==
    \/ \E ok \in BOOLEAN : Start(ok)
    \/ \E ok \in BOOLEAN : SubscribeAntrian(ok)
    \/ \E ok \in BOOLEAN : SubscribeAll(ok)
    \/ Listen
    \/ Shutdown
    \/ Close
    \/ \E sid \in Sockets : Connect(sid)
    \/ \E sid \in Sockets, data \in JoinPayloads : JoinGroup(sid, data)
    \/ \E sid \in Sockets, data \in LeavePayloads : LeaveGroup(sid, data)
    \/ \E sid \in Sockets : JoinPrescription(sid)
    \/ \E sid \in Sockets : LeavePrescription(sid)
    \/ \E sid \in Sockets : Ping(sid)
    \/ \E sid \in Sockets : Disconnect(sid)
    \/ GetActiveDisplays
    \/ \E c \in Channels, m \in Messages, p \in {AntrianPattern, AllPattern} :
            PMessageFirst(c, m, p)
    \/ \E p \in {AntrianPattern, AllPattern} : PMessageNext(p)

\* the whole system
Spec == Init /\ [][Next]_vars

\* the registry under client events alone, on a server whose bus handles
\* connected: no publication reaches the bus (the listeners leave rooms,
\* connections and permalinks as they are)
NextClients ==
    \/ Start(TRUE)
    \/ SubscribeAntrian(TRUE)
    \/ SubscribeAll(TRUE)
    \/ Listen
    \/ Shutdown
    \/ Close
    \/ \E sid \in Sockets : Connect(sid)
    \/ \E sid \in Sockets, data \in JoinPayloads : JoinGroup(sid, data)
    \/ \E sid \in Sockets, data \in LeavePayloads : LeaveGroup(sid, data)
    \/ \E sid \in Sockets : JoinPrescription(sid)
    \/ \E sid \in Sockets : LeavePrescription(sid)
    \/ \E sid \in Sockets : Ping(sid)
    \/ \E sid \in Sockets : Disconnect(sid)
    \/ GetActiveDisplays

SpecClients == Init /\ [][NextClients]_vars

\* join-group and leave-group requests that name a group and no label: the
\* listeners never read the permalinks
RelayPayloads == {Payload(JsNum(g), JsUndef) : g \in GroupNumbers}

\* the bus relay, with clients that enter and leave the rooms
NextRelay ==
    \/ \E ok \in BOOLEAN : Start(ok)
    \/ \E ok \in BOOLEAN : SubscribeAntrian(ok)
    \/ \E ok \in BOOLEAN : SubscribeAll(ok)
    \/ Listen
    \/ Shutdown
    \/ Close
    \/ \E sid \in Sockets : Connect(sid)
    \/ \E sid \in Sockets, data \in RelayPayloads : JoinGroup(sid, data)
    \/ \E sid \in Sockets, data \in RelayPayloads : LeaveGroup(sid, data)
    \/ \E sid \in Sockets : JoinPrescription(sid)
    \/ \E sid \in Sockets : LeavePrescription(sid)
    \/ \E sid \in Sockets : Disconnect(sid)
    \/ \E c \in Channels, m \in Messages, p \in {AntrianPattern, AllPattern} :
            PMessageFirst(c, m, p)
    \/ \E p \in {AntrianPattern, AllPattern} : PMessageNext(p)

SpecRelay == Init /\ [][NextRelay]_vars

\* the join-group listener and the 'antrian.*' listener taken statement by
\* statement, under the runtime's rule that a handler is called when no
\* other is on the thread. (The '*' listener, called for the same
\* publications, emits nothing for these messages.)
NextSteps ==
    \/ Start(TRUE)
    \/ SubscribeAntrian(TRUE)
    \/ SubscribeAll(TRUE)
    \/ Listen
    \/ \E sid \in Sockets : Connect(sid)
    \/ \E sid \in Sockets, data \in JoinPayloads : JoinGroupCall(sid, data)
    \/ \E c \in Channels, m \in {MsgUpdate, MsgNoData, MsgGarbage} :
            ProcessMessageCall(c, m)
    \/ \E r \in runs : Statement(r)
    \/ \E sid \in Sockets : Disconnect(sid)

SpecSteps == Init /\ [][NextSteps]_vars

\* server.js: the manual broadcast route, with clients that enter and leave
\* the rooms
NextPush ==
    \/ Start(TRUE)
    \/ SubscribeAntrian(TRUE)
    \/ SubscribeAll(TRUE)
    \/ Listen
    \/ Shutdown
    \/ Close
    \/ \E sid \in Sockets : MonolithConnect(sid)
    \/ \E sid \in Sockets,
            e \in {"join-group", "leave-group", "join-prescription",
                   "leave-prescription"} :
            Decoded(sid, "packet", e, <<Payload(JsNum(1), JsUndef)>>)
    \/ \E sid \in Sockets : Decoded(sid, "disconnect", "", <<>>)
    \/ ClientEvent
    \/ Dispatch
    \/ \E sid \in Sockets : MonolithDisconnect(sid)
    \/ \E e \in {JsUndef, JsStr("ping")}, d \in {JsUndef, JsObj("{\"x\":1}")},
          r \in PushRooms : Broadcast(e, d, r)

SpecPush == Init /\ [][NextPush]_vars

\* join-group and leave-group payloads of every shape: none, null, an
\* object without groupId, an object with a group and a label
EventPayloads ==
    {NoPayload, NullPayload, Payload(JsUndef, JsUndef),
     Payload(JsNum(1), JsStr("A"))}

\* the event stream: every client event and every bus message
NextEvents ==
    \/ \E ok \in BOOLEAN : Start(ok)
    \/ \E ok \in BOOLEAN : SubscribeAntrian(ok)
    \/ \E ok \in BOOLEAN : SubscribeAll(ok)
    \/ Listen
    \/ Shutdown
    \/ Close
    \/ \E sid \in Sockets : Connect(sid)
    \/ \E sid \in Sockets, data \in EventPayloads : JoinGroup(sid, data)
    \/ \E sid \in Sockets, data \in EventPayloads : LeaveGroup(sid, data)
    \/ \E sid \in Sockets : JoinPrescription(sid)
    \/ \E sid \in Sockets : LeavePrescription(sid)
    \/ \E sid \in Sockets : Ping(sid)
    \/ \E sid \in Sockets : Disconnect(sid)
    \/ \E c \in Channels, m \in Messages, p \in {AntrianPattern, AllPattern} :
            PMessageFirst(c, m, p)
    \/ \E p \in {AntrianPattern, AllPattern} : PMessageNext(p)

SpecEvents == Init /\ [][NextEvents]_vars

\* groupId in its number and its string form, and groupName missing, empty
\* and as two different labels
PermalinkIds == {JsNum(1), JsStr("1"), JsNum(2)}
PermalinkJoins ==
    {Payload(g, n) : g \in PermalinkIds,
                     n \in {JsUndef, JsStr(""), JsStr("A"), JsStr("B")}}

\* the permalinks under the requests that write, delete and read them
NextPermalinks ==
    \/ Start(TRUE)
    \/ SubscribeAntrian(TRUE)
    \/ SubscribeAll(TRUE)
    \/ Listen
    \/ Shutdown
    \/ Close
    \/ \E sid \in Sockets : Connect(sid)
    \/ \E sid \in Sockets, data \in PermalinkJoins : JoinGroup(sid, data)
    \/ \E sid \in Sockets, g \in PermalinkIds :
            LeaveGroup(sid, Payload(g, JsUndef))
    \/ \E sid \in Sockets : Disconnect(sid)
    \/ GetActiveDisplays

SpecPermalinks == Init /\ [][NextPermalinks]_vars

\* the envelopes published to the groups while the clients' streams are
\* recorded
ObservedMessages == {MsgUpdate, MsgPrescription}

\* clients that join and leave groups while publications for the groups are
\* handled, with what every client is sent recorded in order
NextObserved ==
    \/ Start(TRUE)
    \/ SubscribeAntrian(TRUE)
    \/ SubscribeAll(TRUE)
    \/ Listen
    \/ \E sid \in Sockets : Connect(sid)
    \/ \E sid \in Sockets, data \in RelayPayloads : JoinGroup(sid, data)
    \/ \E sid \in Sockets, data \in RelayPayloads : LeaveGroup(sid, data)
    \/ \E m \in ObservedMessages, p \in {AntrianPattern, AllPattern} :
            PMessageFirst(GroupChannel(1), m, p)
    \/ \E p \in {AntrianPattern, AllPattern} : PMessageNext(p)

SpecObserved == InitObserved /\ [][NextObserved]_vars

\* the falsy values a client can send as groupId
FalsyIds == {JsNum(0), JsStr(""), JsBool(FALSE), JsNull, JsUndef, JsNaN}

\* the falsy identifiers, those whose string form is "0", and group 1
ZeroPayloads ==
    {Payload(g, JsUndef) :
        g \in FalsyIds \cup {JsStr("0"), JsArr("0"), JsNum(1)}}

\* clients that ask for group 0 in every form, and the publications for it
NextZero ==
    \/ Start(TRUE)
    \/ SubscribeAntrian(TRUE)
    \/ SubscribeAll(TRUE)
    \/ Listen
    \/ \E sid \in Sockets : Connect(sid)
    \/ \E sid \in Sockets, data \in ZeroPayloads : JoinGroup(sid, data)
    \/ \E sid \in Sockets, data \in ZeroPayloads : LeaveGroup(sid, data)
    \/ \E sid \in Sockets : Disconnect(sid)
    \/ \E p \in {AntrianPattern, AllPattern} :
            PMessageFirst(GroupChannel(0), MsgUpdate, p)
    \/ \E p \in {AntrianPattern, AllPattern} : PMessageNext(p)

SpecZero == Init /\ [][NextZero]_vars

\* the names of the events clients send to the one-file server: those with
\* a listener, and one without
MonolithEvents ==
    {"join-group", "leave-group", "join-prescription", "leave-prescription",
     "ping", "chat"}

\* the one-file server under its clients
NextMonolith ==
    \/ Start(TRUE)
    \/ SubscribeAntrian(TRUE)
    \/ SubscribeAll(TRUE)
    \/ Listen
    \/ Shutdown
    \/ Close
    \/ \E sid \in Sockets : MonolithConnect(sid)
    \/ \E sid \in Sockets, e \in MonolithEvents,
          args \in {<<>>, <<Payload(JsNum(1), JsUndef)>>,
                    <<Payload(JsNum(2), JsUndef), JsStr("more")>>} :
            Decoded(sid, "packet", e, args)
    \/ \E sid \in Sockets : Decoded(sid, "disconnect", "", <<>>)
    \/ ClientEvent
    \/ Dispatch
    \/ \E sid \in Sockets : MonolithDisconnect(sid)

SpecMonolith == Init /\ [][NextMonolith]_vars

\* the most clients of the snapshot's groups
NumDisplaySockets == 3

DisplaySockets == {"s" \o NumToStr(i) : i \in 1..NumDisplaySockets}

\* group identifiers with a number, and one without
DisplayIds == {JsNum(1), JsNum(2), JsStr("x")}

\* clients that open groups, and the snapshot of them
NextDisplays ==
    \/ Start(TRUE)
    \/ SubscribeAntrian(TRUE)
    \/ SubscribeAll(TRUE)
    \/ Listen
    \/ \E sid \in DisplaySockets : Connect(sid)
    \/ \E sid \in DisplaySockets, g \in DisplayIds :
            JoinGroup(sid, Payload(g, JsUndef))
    \/ GetActiveDisplays

SpecDisplays == Init /\ [][NextDisplays]_vars

----------------------------------------------------------------------------
(* Properties *)

GroupRoomsOf(sid) == {r \in SocketRooms(rooms, sid) : StartsWith(r, GroupPrefix)}

GroupRoom(g) == "group_" \o NumToStr(g)

\* the handler that ran last was a join-group that took effect
JoinedGroup ==
    /\ last.op = "join-group"
    /\ Len(out) = 1
    /\ out[1].event = JsStr("joined-group")

\* C1: every connection is in at most one group room, and a join-group that
\* took effect leaves the requester in the room it named and in no other
\* group room.
C1_AtMostOneGroup ==
    /\ \A sid \in Sockets : Cardinality(GroupRoomsOf(sid)) <= 1
    /\ JoinedGroup => GroupRoomsOf(last.sid) = {out[1].data.roomName}

\* a socket that was in group_1 has joined group_2
C1_Witness ==
    /\ JoinedGroup
    /\ GroupRoom(1) \in last.was
    /\ out[1].data.roomName = GroupRoom(2)
    /\ last.sid \in RoomMembers(rooms, GroupRoom(2))
    /\ last.sid \notin RoomMembers(rooms, GroupRoom(1))

\* the group keys that name a room or a permalink
GroupKeys == DOMAIN groupPermalinks \cup {GroupIdOfRoom(r) : r \in GroupRooms(rooms)}

\* C2: a permalink entry for group G exists if and only if room group_G has
\* at least one member. Stated here is the half of it that the registry is
\* to maintain, an entry only while the room has a member; the other half
\* does not hold of a join-group that carries no groupName.
C2_PermalinkOnlyWhileMember ==
    \A k \in GroupKeys :
        (k \in DOMAIN groupPermalinks)
            => (Cardinality(RoomMembers(rooms, GroupPrefix \o k)) >= 1)

\* the socket that disconnected was the only member of group G
DisconnectedLastMemberOf(g) ==
    /\ last.op = "disconnect"
    /\ GroupRoom(g) \in last.was
    /\ RoomMembers(rooms, GroupRoom(g)) = {}

\* C3: when the only member of group G disconnects without leave-group, no
\* permalink entry for G remains once the disconnect handler has completed.
C3_NoPermalinkAfterDisconnect ==
    \A g \in GroupNumbers :
        DisconnectedLastMemberOf(g) => NumToStr(g) \notin DOMAIN groupPermalinks

\* the envelopes among the message bodies that carry an event and a data
WellFormed == {MsgUpdate, MsgPrescription}
Malformed == {MsgGarbage, MsgNull, MsgNoData, MsgNoEvent}

EnvelopeEvent(message) ==
    IF message = MsgPrescription THEN "prescription.ready" ELSE "update"

EnvelopeData == JsObj("{\"n\":1}")

BothPatterns == {AntrianPattern, AllPattern}

Range(seq) == {seq[i] : i \in DOMAIN seq}

\* every pmessage of the last publication has been handled
PublicationDone == last.op = "pmessage" /\ inflight = Idle

\* the multicasts of an event to a room among emits
Multicasts(emits, roomName, event) ==
    {i \in DOMAIN emits :
        /\ emits[i].kind = "room"
        /\ emits[i].target = roomName
        /\ emits[i].event = JsStr(event)}

\* C4: a well-formed envelope on antrian.group.<g>, handled while group_<g>
\* has a member, is multicast once to the members of group_<g> by the
\* 'antrian.*' listener and not at all by the '*' listener; with both
\* patterns subscribed each listener handles it once, so that the
\* publication is multicast exactly once.
C4_ExactlyOneMulticast ==
    [][last'.op = "pmessage"
        => \A g \in GroupNumbers :
            ( /\ last'.channel = GroupChannel(g)
              /\ last'.message \in WellFormed
              /\ RoomMembers(rooms, GroupRoom(g)) # {} )
            => LET event == EnvelopeEvent(last'.message)
                   sends == Multicasts(out', GroupRoom(g), event)
               IN  /\ Cardinality(sends)
                        = IF last'.pattern = AntrianPattern THEN 1 ELSE 0
                   /\ \A i \in sends :
                        /\ out'[i].data = EnvelopeData
                        /\ out'[i].recipients = RoomMembers(rooms, GroupRoom(g))
                   /\ (inflight' = Idle /\ subscribed = BothPatterns)
                        => /\ Len(last'.handled) = 2
                           /\ Range(last'.handled) = BothPatterns
                           /\ Cardinality(Multicasts(last'.sent, GroupRoom(g),
                                                     event)) <= 1
                           /\ last'.pattern = AntrianPattern
                                => Cardinality(Multicasts(last'.sent,
                                        GroupRoom(g), event)) = 1]_vars

\* both listeners have handled an envelope for an occupied group
C4_Witness ==
    /\ PublicationDone
    /\ last.channel = GroupChannel(2)
    /\ last.message = MsgUpdate
    /\ last.handled = <<AllPattern, AntrianPattern>>
    /\ RoomMembers(rooms, GroupRoom(2)) # {}
    /\ Cardinality(Multicasts(last.sent, GroupRoom(2), "update")) = 1

\* C5: for a well-formed envelope on antrian.group.<g>, whatever its event
\* name, the two listeners together send only to room group_<g>.
C5_GroupPathOnly ==
    \A g \in GroupNumbers :
        ( /\ PublicationDone
          /\ last.channel = GroupChannel(g)
          /\ last.message \in WellFormed )
        => \A i \in DOMAIN last.sent :
                /\ last.sent[i].kind = "room"
                /\ last.sent[i].target = GroupRoom(g)

\* C6: a malformed bus message causes no emit, lets no fault escape the
\* listener and leaves the subscriptions active: the process lives and the
\* patterns of the publication are still subscribed, so that the next
\* message is handled.
C6_MalformedDropped ==
    (last.op = "pmessage" /\ last.message \in Malformed)
    => /\ out = <<>>
       /\ last.sent = <<>>
       /\ ~crashed
       /\ Range(last.handled) \cup inflight.pending \subseteq subscribed

\* the JSON literal null was handled by the '*' listener while a client was
\* in the room a well-formed message on the channel would reach
C6_Witness ==
    /\ last.op = "pmessage"
    /\ last.message = MsgNull
    /\ last.pattern = AllPattern
    /\ last.channel = "orders.42"
    /\ Connected(rooms) # {}
    /\ out = <<>>

\* the emits among a sequence that target a room
ToRoom(emits, roomName) ==
    SelectSeq(emits, LAMBDA e : e.kind = "room" /\ e.target = roomName)

\* C7: an envelope whose event starts with 'prescription.', published on
\* channel C, is sent by the '*' listener to the members the 'prescription'
\* room has when it is handled, as C + ':' + event with its data; nothing is
\* sent when the room is empty.
C7_CategoryPrefixing ==
    /\ ( /\ last.op = "pmessage"
         /\ last.pattern = AllPattern
         /\ last.message = MsgPrescription )
       => out = IF RoomMembers(rooms, "prescription") = {} THEN <<>>
                ELSE <<[kind |-> "room", target |-> "prescription",
                        event |-> JsStr(last.channel \o ":prescription.ready"),
                        data |-> EnvelopeData,
                        recipients |-> RoomMembers(rooms, "prescription")]>>
    /\ ( /\ PublicationDone
         /\ last.message = MsgPrescription
         /\ last.channel = "orders.42" )
       => last.sent = ToRoom(last.sent, "prescription")

\* a prescription envelope on orders.42 was sent to an occupied room
C7_Witness ==
    /\ PublicationDone
    /\ last.message = MsgPrescription
    /\ last.channel = "orders.42"
    /\ RoomMembers(rooms, "prescription") # {}
    /\ Len(ToRoom(last.sent, "prescription")) = 1
    /\ ToRoom(last.sent, "prescription")[1].event
            = JsStr("orders.42:prescription.ready")

ClientOps ==
    {"join-group", "leave-group", "join-prescription", "leave-prescription",
     "ping"}

\* C8: the 'antrian.*' listener sends the bare event and the data to exactly
\* the members group_<g> has when the message is handled, and sends nothing
\* when there are none; a client handler run afterwards emits only its own
\* reply to its own socket.
C8_GroupMulticastRecipients ==
    /\ \A g \in GroupNumbers :
          ( /\ last.op = "pmessage"
            /\ last.pattern = AntrianPattern
            /\ last.channel = GroupChannel(g)
            /\ last.message \in WellFormed )
          => out = IF RoomMembers(rooms, GroupRoom(g)) = {} THEN <<>>
                   ELSE <<[kind |-> "room", target |-> GroupRoom(g),
                           event |-> JsStr(EnvelopeEvent(last.message)),
                           data |-> EnvelopeData,
                           recipients |-> RoomMembers(rooms, GroupRoom(g))]>>
    /\ last.op \in ClientOps
          => \A i \in DOMAIN out :
                /\ out[i].kind = "socket"
                /\ out[i].recipients = {last.sid}

\* group_1 got a multicast while another connected socket was outside it
C8_Witness ==
    /\ last.op = "pmessage"
    /\ last.pattern = AntrianPattern
    /\ last.channel = GroupChannel(1)
    /\ last.message = MsgUpdate
    /\ Len(out) = 1
    /\ out[1].recipients = RoomMembers(rooms, GroupRoom(1))
    /\ \E sid \in Connected(rooms) : sid \notin out[1].recipients

\* C9: an envelope whose event does not start with 'prescription.', on a
\* channel C outside 'antrian.', is emitted exactly once, to every connected
\* client, as C + ':' + event with its data.
C9_GenericBroadcast ==
    ( /\ PublicationDone
      /\ last.channel = "orders.42"
      /\ last.message = MsgUpdate )
    => last.sent = <<[kind |-> "all", target |-> "",
                      event |-> JsStr("orders.42:update"),
                      data |-> EnvelopeData,
                      recipients |-> DOMAIN activeConnections]>>

\* a generic envelope reached a client in a group room, and one in no room
C9_Witness ==
    /\ PublicationDone
    /\ last.channel = "orders.42"
    /\ last.message = MsgUpdate
    /\ Len(last.sent) = 1
    /\ \E a, b \in last.sent[1].recipients :
          /\ GroupRoomsOf(a) # {}
          /\ SocketRooms(rooms, b) = {b}

\* C10: an envelope whose event starts with 'prescription.', on a channel
\* outside 'antrian.', is sent to the 'prescription' room only: no socket
\* outside that room receives it.
C10_CategoryOnly ==
    ( /\ PublicationDone
      /\ last.channel = "orders.42"
      /\ last.message = MsgPrescription )
    => \A i \in DOMAIN last.sent :
          /\ last.sent[i].kind = "room"
          /\ last.sent[i].target = "prescription"
          /\ \A sid \in last.sent[i].recipients :
                "prescription" \in SocketRooms(rooms, sid)

\* the envelope was sent while a connected socket was outside the room
C10_Witness ==
    /\ PublicationDone
    /\ last.channel = "orders.42"
    /\ last.message = MsgPrescription
    /\ Len(last.sent) = 1
    /\ \E sid \in Connected(rooms) : "prescription" \notin SocketRooms(rooms, sid)

\* the channels of the reserved namespace that name no group
UngroupedChannels ==
    {c \in Channels :
        StartsWith(c, AntrianPrefix) /\ extractGroupIdFromChannel(c) = JsNull}

\* C11: a well-formed envelope whose event does not start with
\* 'prescription.', on a channel that starts with 'antrian.' and does not
\* contain antrian.group.<digits>, causes no send of any kind from either
\* listener.
C11_ReservedNamespaceDropped ==
    ( /\ last.op = "pmessage"
      /\ last.channel \in UngroupedChannels
      /\ last.message = MsgUpdate )
    => /\ out = <<>>
       /\ last.sent = <<>>
       /\ ~crashed

\* both listeners have handled such an envelope on antrian.group.x while
\* clients were in a group room and in the 'prescription' room
C11_Witness ==
    /\ PublicationDone
    /\ last.channel = "antrian.group.x"
    /\ last.message = MsgUpdate
    /\ Range(last.handled) = BothPatterns
    /\ RoomMembers(rooms, GroupRoom(1)) # {}
    /\ RoomMembers(rooms, "prescription") # {}
    /\ last.sent = <<>>

\* the entries of a snapshot for a room
EntriesOf(displays, roomName) ==
    {i \in DOMAIN displays : displays[i].roomName = roomName}

\* C12: in every reachable state getActiveDisplays() returns exactly one
\* entry for every group room that has a member, with the room's members,
\* none for a group without members, and the entries in ascending order of
\* the group number (of two entries that have one, the first has not the
\* greater); GET /displays/active answers with that list.
C12_SnapshotExact ==
    LET displays == getActiveDisplays(rooms, activeConnections, groupPermalinks)
        names == GroupRooms(rooms) \cup {GroupRoom(g) : g \in GroupNumbers}
    IN  /\ \A r \in names :
              Cardinality(EntriesOf(displays, r))
                  = IF RoomMembers(rooms, r) # {} THEN 1 ELSE 0
        /\ \A i \in DOMAIN displays :
              /\ displays[i].roomName \in names
              /\ displays[i].clientCount
                    = Cardinality(RoomMembers(rooms, displays[i].roomName))
              /\ {c.socketId : c \in displays[i].clients}
                    = RoomMembers(rooms, displays[i].roomName)
        /\ \A i, j \in DOMAIN displays :
              ( /\ i < j
                /\ displays[i].groupNumber.t = "num"
                /\ displays[j].groupNumber.t = "num" )
              => displays[i].groupNumber.n <= displays[j].groupNumber.n
        /\ last.op = "displays"
              => /\ out[1].data.displays = displays
                 /\ out[1].data.totalActiveDisplays = Len(displays)

\* the handler that ran last was a manual push that was accepted; its
\* response is the last thing it wrote
Pushed ==
    /\ last.op = "broadcast"
    /\ out[Len(out)].data.status = 200

PushTarget == out[Len(out)].data.target

\* C13: a manual push with an event and a payload and no room is emitted,
\* under the event's own name and with the payload, to every connected
\* client, whatever rooms the client is in.
C13_PushToAll ==
    (Pushed /\ PushTarget = JsStr(AllClients))
    => /\ Len(out) = 2
       /\ out[1].kind = "all"
       /\ out[1].event = JsStr("ping")
       /\ out[1].data = JsObj("{\"x\":1}")
       /\ out[1].recipients = DOMAIN activeConnections
       /\ out[1].recipients = Connected(rooms)

\* a push without room reached a client of a group room and of the
\* 'prescription' room, and a client of no room
C13_Witness ==
    /\ Pushed
    /\ PushTarget = JsStr(AllClients)
    /\ \E a, b \in out[1].recipients :
          /\ GroupRoomsOf(a) # {}
          /\ "prescription" \in SocketRooms(rooms, a)
          /\ SocketRooms(rooms, b) = {b}

\* C14: a manual push that names a room emits the event, under its own
\* name, to exactly the members the room of that name has, and reports the
\* room name as its target; a push without room reports 'all clients'.
C14_PushToRoom ==
    Pushed =>
        /\ Len(out) = 2
        /\ out[1].event = JsStr("ping")
        /\ out[1].data = JsObj("{\"x\":1}")
        /\ out[2].data.message = "Event ping broadcasted successfully"
        /\ \/ /\ out[1].kind = "room"
              /\ PushTarget \in PushRooms \ {JsUndef}
              /\ PushTarget = JsStr(out[1].target)
              /\ out[1].recipients = RoomMembers(rooms, out[1].target)
           \/ /\ out[1].kind = "all"
              /\ PushTarget = JsStr(AllClients)

\* a push to group_1 reached its member and not the other client, which is
\* in the 'prescription' room
C14_Witness ==
    /\ Pushed
    /\ PushTarget = JsStr("group_1")
    /\ out[1].recipients # {}
    /\ \E sid \in Connected(rooms) \ out[1].recipients :
            "prescription" \in SocketRooms(rooms, sid)

\* the join-group requests that carry no groupId: no payload at all, or a
\* payload without the property
WithoutGroupId == {d \in JoinPayloads : d.groupId = JsUndef}

\* C15: a join-group request with no groupId gets one 'error' event, sent
\* to the requesting connection only, and leaves the rooms of every
\* connection, the permalink map and the connection registry as they were.
C15_MissingGroupIdNoChange ==
    [][last'.op = "join-group"
            => \A d \in WithoutGroupId :
                JoinGroup(last'.sid, d)
                => /\ rooms' = rooms
                   /\ groupPermalinks' = groupPermalinks
                   /\ activeConnections' = activeConnections
                   /\ ~crashed'
                   /\ Len(out') = 1
                   /\ out'[1].kind = "socket"
                   /\ out'[1].event = JsStr("error")
                   /\ out'[1].recipients = {last'.sid}]_vars

\* a connection in a group room was refused a join-group that named no
\* group, while another connection was in a group room
C15_Witness ==
    /\ last.op = "join-group"
    /\ Len(out) = 1
    /\ out[1].event = JsStr("error")
    /\ out[1].data = ErrorData("Group ID is required")
    /\ GroupRoom(1) \in last.was
    /\ GroupRoomsOf(last.sid) = {GroupRoom(1)}
    /\ \E sid \in Sockets \ {last.sid} : GroupRoomsOf(sid) # {}

\* C16: leave-group{G} from a member of G takes the requester out of
\* group_G and no one else; the permalink entry of G is gone afterwards
\* exactly when it was absent or the room is left without members, an entry
\* that stays keeps its label, and no other entry changes.
C16_LeaveGroupPermalink ==
    [][last'.op = "leave-group"
        => \A g \in GroupNumbers :
            ( /\ last'.sid \in RoomMembers(rooms, GroupRoom(g))
              /\ LeaveGroup(last'.sid, Payload(JsNum(g), JsUndef)) )
            => LET key == NumToStr(g)
                   remaining == RoomMembers(rooms', GroupRoom(g))
               IN  /\ remaining = RoomMembers(rooms, GroupRoom(g)) \ {last'.sid}
                   /\ (key \in DOMAIN groupPermalinks')
                        <=> (key \in DOMAIN groupPermalinks /\ remaining # {})
                   /\ key \in DOMAIN groupPermalinks'
                        => groupPermalinks'[key] = groupPermalinks[key]
                   /\ \A k \in (DOMAIN groupPermalinks
                                    \cup DOMAIN groupPermalinks') \ {key} :
                        /\ k \in DOMAIN groupPermalinks
                        /\ k \in DOMAIN groupPermalinks'
                        /\ groupPermalinks'[k] = groupPermalinks[k]]_vars

\* one of the two members of group_1 has left it, and the label of the
\* group is still stored
C16_Witness ==
    /\ last.op = "leave-group"
    /\ GroupRoom(1) \in last.was
    /\ last.sid \notin RoomMembers(rooms, GroupRoom(1))
    /\ RoomMembers(rooms, GroupRoom(1)) # {}
    /\ "1" \in DOMAIN groupPermalinks
    /\ groupPermalinks["1"] = JsStr("A")

\* the join-group that ran last took the only member of group G to another
\* group
EvictedLastMemberOf(g) ==
    /\ JoinedGroup
    /\ GroupRoom(g) \in last.was
    /\ out[1].data.roomName # GroupRoom(g)
    /\ RoomMembers(rooms, GroupRoom(g)) = {}

\* C17: when the only member of group A sends join-group{B} with B # A, no
\* permalink entry for A remains once the join handler has completed.
C17_NoPermalinkAfterEviction ==
    \A g \in GroupNumbers :
        EvictedLastMemberOf(g) => NumToStr(g) \notin DOMAIN groupPermalinks

\* the group rooms among the rooms, with their members
GroupPart(rms) == [r \in GroupRooms(rms) |-> RoomMembers(rms, r)]

\* C18: a step of join-group or leave-group leaves the members of the
\* 'prescription' room as they are; a step of join-prescription or
\* leave-prescription puts the requester in that room, or takes it out, and
\* leaves every group room and every permalink entry as they are.
C18_CategoryIndependent ==
    [][/\ last'.op \in {"join-group", "leave-group"}
            => RoomMembers(rooms', PrescriptionRoom)
                    = RoomMembers(rooms, PrescriptionRoom)
       /\ last'.op \in {"join-prescription", "leave-prescription"}
            => /\ GroupPart(rooms') = GroupPart(rooms)
               /\ groupPermalinks' = groupPermalinks
               /\ RoomMembers(rooms', PrescriptionRoom)
                    = IF last'.op = "join-prescription"
                      THEN RoomMembers(rooms, PrescriptionRoom) \cup {last'.sid}
                      ELSE RoomMembers(rooms, PrescriptionRoom) \ {last'.sid}]_vars

\* a member of the 'prescription' room and of group_1 has joined group_2
\* and is still in the 'prescription' room
C18_Witness ==
    /\ JoinedGroup
    /\ PrescriptionRoom \in last.was
    /\ GroupRoom(1) \in last.was
    /\ SocketRooms(rooms, last.sid) = {last.sid, PrescriptionRoom, GroupRoom(2)}

\* the server listens and a step of the bus initialization had failed
Degraded == stage = "listening" /\ subscribed # BothPatterns

\* C19: when a connect or a pattern subscription fails at startup, the
\* initialization raises nothing and the server listens; from then on
\* connect, join-group, leave-group, disconnect and the snapshot do their
\* work, and no bus message is relayed.
C19_DegradedStart ==
    /\ (last.op \in {"start", "subscribe"} /\ last.message = "failed")
          => (stage = "initialized" /\ ~crashed)
    /\ Degraded =>
          /\ ~crashed
          /\ last.op = "pmessage" => (out = <<>> /\ last.sent = <<>>)
          /\ last.op = "connection"
                => last.sid \in DOMAIN activeConnections \cap Connected(rooms)
          /\ JoinedGroup
                => last.sid \in RoomMembers(rooms, out[1].data.roomName)
          /\ (last.op = "leave-group" /\ out[1].event = JsStr("left-group"))
                => last.sid \notin RoomMembers(rooms, out[1].data.roomName)
          /\ last.op = "disconnect"
                => last.sid \notin DOMAIN activeConnections \cup Connected(rooms)
          /\ last.op = "displays"
                => out[1].data.displays
                    = getActiveDisplays(rooms, activeConnections, groupPermalinks)

\* the envelopes that lack the event or the data, or carry null for it
AbsentOrNull == {MsgNoData, MsgNoEvent, MsgNullData}

\* C20: a parsed envelope is rejected exactly when its event or its data is
\* absent or null: such an envelope on orders.42 is dropped, and the
\* envelope with event 'update' and data 0 is emitted to every client as
\* 'orders.42:update' with the data 0.
C20_FalsyDataAccepted ==
    ( /\ PublicationDone
      /\ last.channel = "orders.42"
      /\ AllPattern \in Range(last.handled)
      /\ Connected(rooms) # {} )
    => /\ last.message \in AbsentOrNull => last.sent = <<>>
       /\ last.message = MsgZeroData
            => last.sent = <<[kind |-> "all", target |-> "",
                              event |-> JsStr("orders.42:update"),
                              data |-> JsNum(0),
                              recipients |-> Connected(rooms)]>>

RequestOps ==
    {"join-group", "leave-group", "join-prescription", "leave-prescription"}

\* C21: no client event and no bus message lets a fault escape its handler:
\* the process lives in every reachable state, every request is answered
\* with one event to the requester, its confirmation or an 'error', a bus
\* listener that failed (no JSON, the literal null, an event name that is
\* no string) has emitted nothing, and the next event is handled.
C21_NoFaultEscapes ==
    /\ ~crashed
    /\ last.op \in RequestOps
          => /\ Len(out) = 1
             /\ out[1].kind = "socket"
             /\ out[1].recipients = {last.sid}
    /\ ( /\ last.op = "pmessage"
          /\ \/ last.message \in {MsgGarbage, MsgNull}
             \/ last.message = MsgNumberEvent /\ last.pattern = AllPattern )
          => out = <<>>

\* a leave-group without payload, from a member of a group room, was
\* answered with 'error'
C21_Witness ==
    /\ last.op = "leave-group"
    /\ Len(out) = 1
    /\ out[1].event = JsStr("error")
    /\ out[1].data = ErrorData("Failed to leave group")
    /\ GroupRoomsOf(last.sid) # {}

\* C22: leave-group{G} from a connection that is not in group_G changes no
\* room membership and no permalink entry, also when G has no member.
C22_LeaveByNonMemberNoOp ==
    [][last'.op = "leave-group"
        => \A g \in GroupNumbers :
            ( /\ last'.sid \notin RoomMembers(rooms, GroupRoom(g))
              /\ LeaveGroup(last'.sid, Payload(JsNum(g), JsUndef)) )
            => /\ rooms' = rooms
               /\ groupPermalinks' = groupPermalinks]_vars

\* the label stored for a group key, undefined when there is none
StoredLabel(perm, k) == IF k \in DOMAIN perm THEN perm[k] ELSE JsUndef

\* C23: while group G keeps at least one member, a join-group for G that
\* carries a non-empty groupName stores that name as the label of G, and
\* every other request (a join with an empty or missing groupName among
\* them) leaves the stored label of G as it is: the label is the one of the
\* latest join that supplied one.
C23_LastLabelWins ==
    [][\A g \in GroupNumbers :
            ( /\ RoomMembers(rooms, GroupRoom(g)) # {}
              /\ RoomMembers(rooms', GroupRoom(g)) # {} )
            => StoredLabel(groupPermalinks', NumToStr(g))
                = IF /\ JoinedGroup'
                     /\ out'[1].data.roomName = GroupRoom(g)
                     /\ Truthy(out'[1].data.groupName)
                  THEN out'[1].data.groupName
                  ELSE StoredLabel(groupPermalinks, NumToStr(g))]_vars

\* a join of group_1 with an empty groupName has left the label B of the
\* group, which has two members, as it was
C23_Witness ==
    /\ JoinedGroup
    /\ out[1].data.roomName = GroupRoom(1)
    /\ out[1].data.groupName = JsStr("")
    /\ Cardinality(RoomMembers(rooms, GroupRoom(1))) = 2
    /\ StoredLabel(groupPermalinks, "1") = JsStr("B")

\* the join-group that ran last made the requester the first member of its
\* room: the room went from zero members to one
OpenedRoom ==
    /\ JoinedGroup
    /\ out[1].data.roomName \notin last.was
    /\ RoomMembers(rooms, out[1].data.roomName) = {last.sid}

\* C24: the permalink getActiveDisplays() shows for a group is a label
\* supplied since the room last went from zero members to one, or the
\* default: right after the join that opens the room it is that join's
\* groupName, or '/display/group/<id>' when the join carried none.
C24_NoStaleLabelShown ==
    OpenedRoom
    => LET roomName == out[1].data.roomName
           groupName == out[1].data.groupName
       IN  Display(rooms, activeConnections, groupPermalinks, roomName).permalink
            = IF Truthy(groupName) THEN groupName
              ELSE JsStr(DefaultPermalink \o GroupIdOfRoom(roomName))

\* C25: the registry holds a record for exactly the connections between
\* their connect and their disconnect event; once the disconnect handler
\* has completed the identifier is in no room at all and has no record. The
\* handler calls the cleanup sweep first, and the record is still in the
\* registry the sweep leaves; it calls the removal second, which takes the
\* record away and leaves the permalinks as the sweep left them.
C25_RecordLifetime ==
    /\ DOMAIN activeConnections = Connected(rooms)
    /\ \A sid \in DOMAIN activeConnections : activeConnections[sid].id = sid
    /\ last.op = "connection" => last.sid \in DOMAIN activeConnections
    /\ last.op = "disconnect"
          => /\ last.sid \notin DOMAIN activeConnections
             /\ \A r \in RoomNames(rooms) : last.sid \notin RoomMembers(rooms, r)
             /\ groupPermalinks = cleanupEmptyGroups(rooms, groupPermalinks)
             /\ Len(last.steps) = 2
             /\ last.steps[1].call = "cleanupEmptyGroups"
             /\ last.sid \in DOMAIN last.steps[1].connections
             /\ DOMAIN last.steps[1].connections =
                    DOMAIN activeConnections \cup {last.sid}
             /\ last.steps[1].permalinks =
                    cleanupEmptyGroups(rooms, last.steps[1].permalinks)
             /\ last.steps[2].call = "removeConnection"
             /\ last.steps[2].connections = activeConnections
             /\ last.steps[2].connections =
                    removeConnection(last.steps[1].connections, last.sid)
             /\ last.steps[2].permalinks = last.steps[1].permalinks
             /\ last.steps[2].permalinks = groupPermalinks

\* a member of a group room and of the 'prescription' room has disconnected
\* while another connection stays registered: the sweep ran on a registry
\* of two records, the removal left one
C25_Witness ==
    /\ last.op = "disconnect"
    /\ PrescriptionRoom \in last.was
    /\ \E g \in GroupNumbers : GroupRoom(g) \in last.was
    /\ last.sid \notin DOMAIN activeConnections
    /\ DOMAIN activeConnections # {}
    /\ Cardinality(DOMAIN last.steps[1].connections) = 2
    /\ Cardinality(DOMAIN last.steps[2].connections) = 1

\* C26: every join-group request gets exactly one reply, sent to the
\* requester and to no one else: 'joined-group' with roomName = 'group_' +
\* groupId, the requester then being a member of that room, or 'error', the
\* requester's rooms then being those it had.
C26_OneJoinReply ==
    last.op = "join-group"
    => /\ Len(out) = 1
       /\ out[1].kind = "socket"
       /\ out[1].target = last.sid
       /\ out[1].recipients = {last.sid}
       /\ out[1].event \in {JsStr("joined-group"), JsStr("error")}
       /\ out[1].event = JsStr("joined-group")
            => /\ Truthy(out[1].data.groupId)
               /\ out[1].data.roomName
                    = "group_" \o JsString(out[1].data.groupId)
               /\ last.sid \in RoomMembers(rooms, out[1].data.roomName)
       /\ out[1].event = JsStr("error")
            => SocketRooms(rooms, last.sid) = last.was

\* a join-group was confirmed to its requester while another connection,
\* which got nothing, was connected
C26_Witness ==
    /\ JoinedGroup
    /\ out[1].data.roomName = GroupRoom(2)
    /\ out[1].recipients = {last.sid}
    /\ Connected(rooms) \ {last.sid} # {}

\* C27: a 'ping' from a connection yields one 'pong', emitted to that
\* connection only, and leaves the connection registry, every room's
\* membership and the permalink map as they were.
C27_PingPong ==
    [][last'.op = "ping"
        => /\ Len(out') = 1
           /\ out'[1].kind = "socket"
           /\ out'[1].event = JsStr("pong")
           /\ out'[1].recipients = {last'.sid}
           /\ last'.sid \in DOMAIN activeConnections
           /\ UNCHANGED <<rooms, activeConnections, groupPermalinks>>]_vars

\* a ping was answered to a member of a group room that has a label, with
\* another connection present
C27_Witness ==
    /\ last.op = "ping"
    /\ out # <<>>
    /\ out[1].event = JsStr("pong")
    /\ PreviousGroupRooms(rooms, last.sid) # {}
    /\ DOMAIN groupPermalinks # {}
    /\ Connected(rooms) \ {last.sid} # {}

\* the two forms a client can send of the identifier of group 1
FormsOfOne == {JsNum(1), JsStr("1")}

\* C28: the number 1 and the string "1" denote one group. A join-group with
\* either form puts the requester in room 'group_1' and stores its label
\* under the key "1"; a leave-group with either form that empties the room
\* deletes that key; the key cleanupEmptyGroups and getActiveDisplays derive
\* from a room name is the key join stored under; and the map has no key
\* but the string forms of the identifiers.
C28_OneKeyPerGroup ==
    /\ DOMAIN groupPermalinks \subseteq {JsString(g) : g \in PermalinkIds}
    /\ \A r \in GroupRooms(rooms) :
          /\ GroupIdOfRoom(r) \in {JsString(g) : g \in PermalinkIds}
          /\ GroupPrefix \o GroupIdOfRoom(r) = r
    /\ (JoinedGroup /\ out[1].data.groupId \in FormsOfOne)
          => /\ out[1].data.roomName = "group_1"
             /\ last.sid \in RoomMembers(rooms, "group_1")
             /\ GroupIdOfRoom(out[1].data.roomName) = "1"
             /\ Truthy(out[1].data.groupName)
                  => StoredLabel(groupPermalinks, "1") = out[1].data.groupName
    /\ (/\ last.op = "leave-group"
        /\ Len(out) = 1
        /\ out[1].event = JsStr("left-group")
        /\ out[1].data.groupId \in FormsOfOne)
          => /\ out[1].data.roomName = "group_1"
             /\ last.sid \notin RoomMembers(rooms, "group_1")
             /\ RoomMembers(rooms, "group_1") = {}
                  => "1" \notin DOMAIN groupPermalinks
    /\ last.op = "displays"
          => \A i \in DOMAIN out[1].data.displays :
                LET d == out[1].data.displays[i]
                    stored == StoredLabel(groupPermalinks, "1")
                IN  d.roomName = "group_1"
                    => /\ d.groupNumber = JsNum(1)
                       /\ d.permalink = IF Truthy(stored) THEN stored
                                         ELSE JsStr("/display/group/1")

\* a connection joined group "1", sent as a string, with label 'B', next to
\* a member of the same room
C28_Witness ==
    /\ JoinedGroup
    /\ out[1].data.groupId = JsStr("1")
    /\ out[1].data.groupName = JsStr("B")
    /\ RoomMembers(rooms, "group_1") \ {last.sid} # {}
    /\ DOMAIN groupPermalinks = {"1"}

\* the emits of the handler that ran last
LastEmits == {out[i] : i \in DOMAIN out}

\* a join-group that was called has taken its requester out of a group
\* room it was in and has not yet put it into the room asked for
HalfJoined(r) ==
    /\ r.handler = "join-group"
    /\ r.sid \notin RoomMembers(rooms, r.roomName)
    /\ \E room \in r.was : r.sid \notin RoomMembers(rooms, room)

\* C29: handlers run one at a time to completion. From a state in which a
\* handler has been called and has not ended, a join-group between its
\* leave and its join among them, the only step is that handler's next
\* statement: no other handler is called in such a state and no other
\* statement runs, so that no handler and no multicast sees it. The emit of
\* a bus message goes to exactly the members the room had when the listener
\* counted them, which are the members it has when the emit is made.
C29_HandlersAtomic ==
    [][/\ \A r \in runs :
             /\ runs = {r}
             /\ last'.op = "statement"
             /\ last'.pattern = r.handler
             /\ last'.sid = r.sid
             /\ last'.message = r.pc
             /\ \A q \in runs' :
                    runs' = {q} /\ q.handler = r.handler /\ q.sid = r.sid
       /\ (\E r \in runs : HalfJoined(r))
             => /\ last'.op = "statement"
                /\ last'.pattern = "join-group"
                /\ last'.message \in {"leave", "join"}
       /\ last'.op \in {"call", "connection", "disconnect"} => runs = {}
       /\ (last'.op = "statement" /\ last'.pattern = "pmessage")
             => \E r \in runs :
                   /\ out' = <<Emit("room", r.roomName, r.event, r.data,
                                    r.members)>>
                   /\ r.members = RoomMembers(rooms, r.roomName)
                   /\ r.members = RoomMembers(rooms', r.roomName)
                   /\ r.members # {}]_vars

\* a join-group has taken its requester out of group_1 and not yet put it
\* into group_2, where another connection is
C29_Witness ==
    \E r \in runs :
        /\ HalfJoined(r)
        /\ r.pc = "join"
        /\ r.was = {GroupRoom(1)}
        /\ r.roomName = GroupRoom(2)
        /\ RoomMembers(rooms, GroupRoom(2)) # {}

\* the listener of a bus message has counted the two members of a group
\* room and has not yet made the emit
C29_CountedNotYetSent ==
    \E r \in runs :
        /\ r.handler = "pmessage"
        /\ r.pc = "emit"
        /\ Cardinality(r.members) = 2

\* the emit of a bus message reached the two members of group_2, one of
\* which came from group_1 with a join-group that stored its label
C29_SentToMembers ==
    /\ last.op = "statement"
    /\ last.pattern = "pmessage"
    /\ out[1].target = GroupRoom(2)
    /\ Cardinality(out[1].recipients) = 2

\* C30: handling a bus message, well-formed or not, on any channel and from
\* either subscription, leaves the connection records, every room's
\* membership and the permalink map as they were.
C30_BusLeavesRegistry ==
    [][last'.op = "pmessage"
        => UNCHANGED <<rooms, activeConnections, groupPermalinks>>]_vars

\* a message was relayed to the member of a group room that has a stored
\* label
C30_Witness ==
    /\ last.op = "pmessage"
    /\ last.sent # <<>>
    /\ RoomMembers(rooms, GroupRoom(1)) # {}
    /\ StoredLabel(groupPermalinks, "1") = JsStr("A")
    /\ DOMAIN activeConnections # {}

\* C31: after every handler, every member of every group room and of the
\* 'prescription' room has a record in the registry, and every entry of
\* getActiveDisplays() has a clientCount that is the number of its client
\* entries and is at least 1.
C31_MembersHaveRecords ==
    /\ \A r \in GroupRooms(rooms) \cup {PrescriptionRoom} :
          RoomMembers(rooms, r) \subseteq DOMAIN activeConnections
    /\ LET displays == getActiveDisplays(rooms, activeConnections, groupPermalinks)
       IN  \A i \in DOMAIN displays :
              /\ displays[i].clientCount = Cardinality(displays[i].clients)
              /\ displays[i].clientCount >= 1
              /\ \A c \in displays[i].clients :
                    c.socketId \in DOMAIN activeConnections

\* a connection has gone while another stays in a group room and in the
\* 'prescription' room
C31_Witness ==
    /\ last.op = "disconnect"
    /\ \E sid \in Connected(rooms) :
          /\ sid \in RoomMembers(rooms, PrescriptionRoom)
          /\ PreviousGroupRooms(rooms, sid) # {}
    /\ Len(getActiveDisplays(rooms, activeConnections, groupPermalinks)) = 1

\* the sum of clientCount over the entries of a list of displays
RECURSIVE SumClientCount(_)
SumClientCount(displays) ==
    IF displays = <<>> THEN 0
    ELSE Head(displays).clientCount + SumClientCount(Tail(displays))

\* the connection identifiers in the client list of an entry
ClientIds(display) == {c.socketId : c \in display.clients}

\* C32: in every reachable state the sum of clientCount over the entries of
\* getActiveDisplays() is at most the number of connection records, and no
\* connection identifier is in the client list of two entries.
C32_DisplaysPartition ==
    LET displays == getActiveDisplays(rooms, activeConnections, groupPermalinks)
    IN  /\ SumClientCount(displays) <= Cardinality(DOMAIN activeConnections)
        /\ \A i, j \in DOMAIN displays :
              i # j => ClientIds(displays[i]) \cap ClientIds(displays[j]) = {}

\* a connection moved from one group to another that already had a member:
\* every connection record is counted, in one entry
C32_Witness ==
    LET displays == getActiveDisplays(rooms, activeConnections, groupPermalinks)
    IN  /\ JoinedGroup
        /\ \E r \in last.was \ {out[1].data.roomName} : StartsWith(r, GroupPrefix)
        /\ Len(displays) = 1
        /\ SumClientCount(displays) = Cardinality(DOMAIN activeConnections)
        /\ SumClientCount(displays) >= 2

\* the join-group handled in this step was confirmed, its requester was in
\* no group room, and the group it names had no member and no label
JoinedFreshGroup ==
    /\ last'.op = "join-group"
    /\ Len(out') = 1
    /\ out'[1].event = JsStr("joined-group")
    /\ PreviousGroupRooms(rooms, last'.sid) = {}
    /\ RoomMembers(rooms, out'[1].data.roomName) = {}
    /\ JsString(out'[1].data.groupId) \notin DOMAIN groupPermalinks

\* C33: for a connection in no group room and a group G without members and
\* without a permalink entry, join-group{G, label} followed immediately by
\* leave-group{G} from the same connection restores the rooms and the
\* permalink map of before the join, and is answered with 'left-group'.
C33_JoinLeaveRoundTrip ==
    [][JoinedFreshGroup
        => LET left == handleLeaveGroup(rooms', groupPermalinks', last'.sid,
                            Payload(out'[1].data.groupId, JsUndef))
           IN  /\ left.rooms = rooms
               /\ left.permalinks = groupPermalinks
               /\ ~left.threw
               /\ Len(left.out) = 1
               /\ left.out[1].event = JsStr("left-group")]_vars

\* a connection has joined, with label 'B', a group that nobody was in, while
\* the other group has a member and a label
C33_Witness ==
    /\ JoinedGroup
    /\ PreviousGroupRooms(rooms, last.sid) = {out[1].data.roomName}
    /\ \A r \in last.was : ~StartsWith(r, GroupPrefix)
    /\ RoomMembers(rooms, out[1].data.roomName) = {last.sid}
    /\ out[1].data.groupName = JsStr("B")
    /\ StoredLabel(groupPermalinks, JsString(out[1].data.groupId)) = JsStr("B")
    /\ \E k \in DOMAIN groupPermalinks : k # JsString(out[1].data.groupId)
    /\ Cardinality(GroupRooms(rooms)) = 2

\* the entries of perm whose group room has a member are entries of kept
KeepsOccupied(rms, perm, kept) ==
    \A k \in DOMAIN perm :
        RoomMembers(rms, GroupPrefix \o k) # {}
            => k \in DOMAIN kept /\ kept[k] = perm[k]

\* C34: neither cleanupEmptyGroups() nor the disconnect of a connection
\* deletes the permalink entry of a group that still has a member, and
\* cleanupEmptyGroups() run twice gives the state it gives run once.
C34_SweepSparesOccupied ==
    [][/\ KeepsOccupied(rooms', groupPermalinks',
                        cleanupEmptyGroups(rooms', groupPermalinks'))
       /\ cleanupEmptyGroups(rooms',
                cleanupEmptyGroups(rooms', groupPermalinks'))
            = cleanupEmptyGroups(rooms', groupPermalinks')
       /\ last'.op = "disconnect"
            => KeepsOccupied(rooms', groupPermalinks, groupPermalinks')]_vars

\* one of the two members of a group that has a label has disconnected
C34_Witness ==
    /\ last.op = "disconnect"
    /\ \E g \in GroupNumbers :
          /\ GroupRoom(g) \in last.was
          /\ RoomMembers(rooms, GroupRoom(g)) # {}
          /\ StoredLabel(groupPermalinks, NumToStr(g)) = JsStr("A")

\* the bare event names of the envelopes published to the groups
GroupEvents == {JsonParse(m).event : m \in ObservedMessages}

\* the group multicasts a connection was sent, in the order it was sent them
MulticastsSent(sid) == SelectSeq(inbox[sid], LAMBDA e : e.event \in GroupEvents)

\* the members, when the 'antrian.*' listener handled publication k, of the
\* group room its channel names
MembersAt(k) == published[k].members

\* the events, in the order of handling, of the publications from k on that
\* were handled with the connection in their group
RECURSIVE EventsFor(_, _)
EventsFor(sid, k) ==
    IF k > Len(published) THEN <<>>
    ELSE IF sid \in MembersAt(k)
         THEN <<[event |-> JsonParse(published[k].message).event,
                 data |-> JsonParse(published[k].message).data]>>
                \o EventsFor(sid, k + 1)
         ELSE EventsFor(sid, k + 1)

\* C35: the group multicasts a connection has been sent are the events of
\* the publications handled while it was in their group, once each and in
\* the order the publications were handled: of two envelopes m1, m2 for
\* group G handled in that order, a member of group_G at both handlings is
\* sent m1's event before m2's, and each once.
C35_HandlingOrderKept ==
    \A sid \in Sockets : MulticastsSent(sid) = EventsFor(sid, 1)

\* two different envelopes for group 1 were handled, with a connection in
\* the group at both handlings and another, connected, in it at neither
C35_Witness ==
    /\ Len(published) = 2
    /\ inflight = Idle
    /\ published[1].channel = GroupChannel(1)
    /\ published[2].channel = GroupChannel(1)
    /\ published[1].message = MsgUpdate
    /\ published[2].message = MsgPrescription
    /\ \E sid \in MembersAt(1) \cap MembersAt(2) :
          /\ Len(MulticastsSent(sid)) = 2
          /\ MulticastsSent(sid)[1].event = JsStr("update")
          /\ MulticastsSent(sid)[2].event = JsStr("prescription.ready")
    /\ \E sid \in Connected(rooms) \ (MembersAt(1) \cup MembersAt(2)) :
          MulticastsSent(sid) = <<>>

\* an emit that tells a connection it has entered a group room, or has left
\* the room of group g
TellsMembership(e, g) ==
    \/ e.event = JsStr("joined-group")
    \/ e.event = JsStr("left-group") /\ e.data.roomName = GroupRoom(g)

\* C36: in the stream of every connection, a multicast for group G (the
\* publications recorded are for group 1) comes after a 'joined-group' for
\* group_G, with no 'left-group' for group_G and no 'joined-group' for
\* another room between the two: none before the confirmation of the join
\* that made the connection a member, none after its leave-group or its
\* eviction by a later join.
C36_MulticastOnlyWhileMember ==
    \A sid \in Sockets : \A i \in DOMAIN inbox[sid] :
        inbox[sid][i].event \in GroupEvents
            => LET told == {j \in 1..(i - 1) : TellsMembership(inbox[sid][j], 1)}
               IN  /\ told # {}
                   /\ inbox[sid][Max(told)].event = JsStr("joined-group")
                   /\ inbox[sid][Max(told)].data.roomName = GroupRoom(1)

\* a connection joined group 1, was sent a multicast, moved to group 2, and
\* the next publication for group 1 was handled without a send to it
C36_Witness ==
    /\ Len(published) = 2
    /\ inflight = Idle
    /\ \E sid \in Sockets :
          /\ Len(inbox[sid]) = 3
          /\ inbox[sid][1].event = JsStr("joined-group")
          /\ inbox[sid][1].data.roomName = GroupRoom(1)
          /\ inbox[sid][2].event \in GroupEvents
          /\ inbox[sid][3].event = JsStr("joined-group")
          /\ inbox[sid][3].data.roomName = GroupRoom(2)
          /\ sid \in published[1].members
          /\ sid \notin published[2].members

\* join-group refuses a falsy groupId with 'Group ID is required' and
\* changes nothing
RefusesFalsy ==
    /\ \A sid \in Connected(rooms), g \in FalsyIds :
          handleJoinGroup(rooms, groupPermalinks, sid, Payload(g, JsUndef))
            = Returned(rooms, groupPermalinks,
                <<SocketEmit(sid, "error", ErrorData("Group ID is required"))>>)
    /\ JoinedGroup => Truthy(out[1].data.groupId)
    /\ (last.op = "join-group" /\ ~JoinedGroup)
          => /\ out = <<SocketEmit(last.sid, "error",
                            ErrorData("Group ID is required"))>>
             /\ SocketRooms(rooms, last.sid) = last.was

\* a publication on antrian.group.0 is sent to room 'group_0'
ZeroChannelAddressesGroupZero ==
    (last.op = "pmessage" /\ last.channel = GroupChannel(0))
        => \A i \in DOMAIN out :
              /\ out[i].target = "group_0"
              /\ out[i].recipients = RoomMembers(rooms, "group_0")

\* C37 as stated: a falsy groupId is refused without a change of state, and
\* room 'group_0', which a publication on antrian.group.0 addresses, is
\* joined only with the string "0" as identifier.
C37_ZeroOnlyAsString ==
    /\ RefusesFalsy
    /\ ZeroChannelAddressesGroupZero
    /\ (JoinedGroup /\ out[1].data.roomName = "group_0")
          => out[1].data.groupId = JsStr("0")

\* C37 amended: a falsy groupId is refused without a change of state, and
\* room 'group_0' is joined with a truthy identifier whose string form is
\* "0": never with the number 0, with the string "0", and also with a value
\* such as the array [0].
C37_ZeroOnlyAsTruthyForm ==
    /\ RefusesFalsy
    /\ ZeroChannelAddressesGroupZero
    /\ (JoinedGroup /\ out[1].data.roomName = "group_0")
          => /\ Truthy(out[1].data.groupId)
             /\ JsString(out[1].data.groupId) = "0"
             /\ out[1].data.groupId # JsNum(0)

\* a connection has joined 'group_0' with the string "0", next to another
\* member of the room
C37_Witness ==
    /\ JoinedGroup
    /\ out[1].data.groupId = JsStr("0")
    /\ out[1].data.roomName = "group_0"
    /\ RoomMembers(rooms, "group_0") \ {last.sid} # {}

\* the initialization of the bus has ended
Initialized == stage \in {"initialized", "listening", "quit", "closed"}

\* C38: the pattern listeners are registered only after both handles have
\* connected, 'antrian.*' before '*'. When a connect fails no pattern is
\* subscribed, then or later, so that no bus message is ever handled; when
\* the subscription of '*' fails after that of 'antrian.*', nothing is
\* raised and the group path alone keeps relaying.
C38_SubscriptionStages ==
    [][/\ subscribed' \in {{}, {AntrianPattern}, {AntrianPattern, AllPattern}}
       /\ stage' \in {"constructed", "connected"} => subscribed' = {}
       /\ (last'.op \in {"start", "subscribe"} /\ last'.message = "failed")
             => /\ stage' = "initialized"
                /\ ~crashed'
                /\ subscribed' = IF last'.pattern = AllPattern
                                 THEN {AntrianPattern} ELSE {}
       /\ Initialized => subscribed' \subseteq subscribed
       /\ last'.op = "pmessage"
             => /\ last'.pattern \in subscribed
                /\ subscribed # {}
       /\ (subscribed = {AntrianPattern} /\ last'.op = "pmessage")
             => /\ ~crashed'
                /\ last'.handled = <<AntrianPattern>>
                /\ inflight' = Idle
                /\ \A i \in DOMAIN last'.sent :
                       /\ last'.sent[i].kind = "room"
                       /\ StartsWith(last'.sent[i].target, GroupPrefix)
                       /\ last'.sent[i].recipients
                               = RoomMembers(rooms, last'.sent[i].target)]_vars

\* after the subscription of '*' had failed the server listens, and a
\* publication was multicast to the member of its group
C38_Witness ==
    /\ stage = "listening"
    /\ subscribed = {AntrianPattern}
    /\ last.op = "pmessage"
    /\ Len(last.sent) = 1
    /\ last.sent[1].target = GroupRoom(1)
    /\ last.sent[1].recipients # {}

\* the relay of an event: to the sockets connected but the sender
RelayOf(rms, sid, eventName, args) ==
    [kind |-> "broadcast", target |-> "", event |-> JsStr(eventName),
     data |-> args, recipients |-> Connected(rms) \ {sid}]

\* C39: in the one-file server every event a client sends, whatever its
\* name, is re-emitted on the tick after it is read, under the same name
\* and with all its arguments, to every client connected then but the
\* sender, also when the sender's connection has ended since the read; the
\* relay changes no membership and no record but the time of the sender's
\* last activity. The listener of the name is called a tick later, in the
\* order of the events, with the first argument, and does what it does
\* alone, provided the sender is still connected: if not, the event is
\* ignored. The connection ends with the read, before the relay, or on the
\* tick of a DISCONNECT packet, which may come between the relay and the
\* listener.
C39_RelayThenListener ==
    [][/\ last'.op = "decoded"
          => /\ last'.sid \in Connected(rooms)
             /\ Len(ticks') = Len(ticks) + 1
             /\ SubSeq(ticks', 1, Len(ticks)) = ticks
             /\ ticks'[Len(ticks')].kind \in {"packet", "disconnect"}
             /\ ticks'[Len(ticks')].kind = "packet"
                    <=> last'.message \in MonolithEvents
             /\ ticks'[Len(ticks')].sid = last'.sid
             /\ \A i \in DOMAIN ticks : ticks[i].kind # "listener"
             /\ out' = <<>>
             /\ UNCHANGED <<rooms, activeConnections, groupPermalinks>>
       /\ last'.op = "disconnect"
          => /\ last'.sid \in Connected(rooms) \ Connected(rooms')
             /\ \/ ticks' = ticks
                \/ /\ ticks # <<>>
                   /\ Head(ticks).kind = "disconnect"
                   /\ Head(ticks).sid = last'.sid
                   /\ ticks' = Tail(ticks)
             /\ \A i \in DOMAIN ticks' : ticks'[i].sid = last'.sid
             /\ out' = <<>>
             /\ \A u \in Sockets \ {last'.sid} :
                    SocketRooms(rooms', u) = SocketRooms(rooms, u)
       /\ last'.op = "onAny"
          => LET t == Head(ticks)
             IN  /\ ticks # <<>>
                 /\ t.kind = "packet"
                 /\ last'.sid = t.sid
                 /\ last'.message = t.eventName
                 /\ out' = <<RelayOf(rooms, t.sid, t.eventName, t.args)>>
                 /\ t.sid \notin out'[1].recipients
                 /\ out'[1].recipients = Connected(rooms') \ {t.sid}
                 /\ ticks' = Append(Tail(ticks),
                                    [t EXCEPT !.kind = "listener"])
                 /\ UNCHANGED <<rooms, groupPermalinks>>
                 /\ DOMAIN activeConnections' = DOMAIN activeConnections
                 /\ \A u \in DOMAIN activeConnections :
                        IF u = t.sid
                        THEN activeConnections'[u] =
                                [activeConnections[u]
                                    EXCEPT !.lastActivity = "onAny"]
                        ELSE activeConnections'[u] = activeConnections[u]
       /\ last'.op \in MonolithEvents
          => LET t == Head(ticks)
                 first == IF t.args = <<>> THEN NoPayload ELSE t.args[1]
                 own == MonolithListener(rooms, t.sid, t.eventName, first)
             IN  /\ ticks # <<>>
                 /\ t.kind = "listener"
                 /\ ticks' = Tail(ticks)
                 /\ last'.op = t.eventName
                 /\ last'.sid = t.sid
                 /\ t.sid \in Connected(rooms)
                 /\ out' = own.out
                 /\ rooms' = own.rooms
                 /\ \A u \in Sockets \ {t.sid} :
                        SocketRooms(rooms', u) = SocketRooms(rooms, u)
                 /\ last'.op \in {"ping", "chat"} => rooms' = rooms
                 /\ UNCHANGED <<activeConnections, groupPermalinks>>
       /\ last'.op = "ignored"
          => /\ ticks # <<>>
             /\ Head(ticks).kind = "listener"
             /\ ticks' = Tail(ticks)
             /\ Head(ticks).sid \notin Connected(rooms)
             /\ out' = <<>>
             /\ UNCHANGED <<rooms, activeConnections, groupPermalinks>>]_vars

\* C39, as stated: the listener of every event that was relayed runs; no
\* event is relayed and then ignored.
C39_ListenerAlwaysRuns == last.op # "ignored"

\* a join-group with two arguments was relayed to the other client after
\* its sender's connection had ended; its listener is still to be ignored
C39_Witness ==
    /\ last.op = "onAny"
    /\ last.message = "join-group"
    /\ last.sid \notin Connected(rooms)
    /\ Len(out) = 1
    /\ out[1].event = JsStr("join-group")
    /\ Len(out[1].data) = 2
    /\ out[1].recipients # {}
    /\ ticks # <<>>
    /\ ticks[Len(ticks)].kind = "listener"

\* two events of one read, a join-group and a ping, were relayed to the
\* other connected client before the listener of either ran
C39_BothRelayedFirst ==
    /\ last.op = "onAny"
    /\ last.message = "ping"
    /\ Len(ticks) = 2
    /\ ticks[1].kind = "listener"
    /\ ticks[1].eventName = "join-group"
    /\ ticks[2].kind = "listener"
    /\ out[1].recipients # {}
    /\ last.sid \in Connected(rooms)
    /\ last.sid \notin out[1].recipients

\* the listener of a relayed join-group ran and confirmed it to its sender
C39_ListenerRan ==
    /\ last.op = "join-group"
    /\ out # <<>>
    /\ out[1].event = JsStr("joined-group")
    /\ out[1].recipients = {last.sid}

\* a join-prescription was relayed while its sender was connected; the
\* DISCONNECT packet read with it has ended the connection on its tick,
\* and the listener of the event still waits, to be ignored
C39_DisconnectBeforeListener ==
    /\ last.op = "disconnect"
    /\ last.sid \notin Connected(rooms)
    /\ last.sid \notin DOMAIN activeConnections
    /\ Len(ticks) = 1
    /\ ticks[1].kind = "listener"
    /\ ticks[1].sid = last.sid
    /\ ticks[1].eventName = "join-prescription"
    /\ Connected(rooms) # {}

====
